---- MODULE Spec2Model ----
(***************************************************************************)
(* Cynaps3 OpenClaw plugin: the authenticated client (call / rpc / query), *)
(* the error type, the parameter sanitizer and the tool handlers built on  *)
(* them, as a state machine.  One tool invocation (or one direct call())   *)
(* is in progress at a time; the backend and the transport are the         *)
(* environment and choose every response.                                  *)
(***************************************************************************)
EXTENDS Integers, Sequences, FiniteSets, TLC

VARIABLES
    cpc,         \* position of call(): "none", "fetch", "sleep", "ok", "fail"
    maxRetries,  \* call(): const maxRetries
    attempt,     \* call(): loop variable
    lastError,   \* call(): let lastError
    log,         \* responses received by the attempts of the current call()
    delays,      \* arguments of the sleep() calls of the current call()
    callValue,   \* value returned by call()
    callError,   \* error thrown by call()
    sent,        \* outbound requests of the current invocation, in order
    tool,        \* tool being executed, "direct" for a bare call(), "none"
    params,      \* params of the current invocation
    hpc,         \* position of the handler
    hresult,     \* what the handler returned or threw
    step,        \* which await of a multi-request handler is pending
    kept,        \* handler locals kept across awaits
    req,         \* the request the pending call() or query() sends
    custody,     \* confirmation token held by the agent between invocations
    invocations, \* number of invocations started
    probe,       \* input of the pure function under check
    verdict,     \* its output, undefined until it has been applied
    qlog,        \* responses received by the query() calls of the invocation
    built,       \* arguments of fromContext(): config.agentId and ctx
    agentId,     \* this.agentId of the client
    env,         \* process.env: OPENCLAW_AGENT_ID and CYNAPS3_AGENT_ID
    calls        \* the call()s issued on one client and suspended together

vars == <<cpc, maxRetries, attempt, lastError, log, delays, callValue,
          callError, sent, tool, params, hpc, hresult, step, kept, req,
          custody, invocations, probe, verdict, qlog, built, agentId, env,
          calls>>

\* what no step of call(), of query() or of a handler writes
pureVars == <<probe, verdict, built, agentId, env, calls>>

callVars == <<cpc, maxRetries, attempt, lastError, log, delays, callValue,
              callError>>

(***************************************************************************)
(* Program constants                                                       *)
(***************************************************************************)
DEFAULT_TIMEOUT_MS == 30000
MAX_RETRIES == 2
RETRY_DELAY_MS == 1000

(***************************************************************************)
(* Bounds of the model                                                     *)
(***************************************************************************)
MaxRetriesBound == 2   \* retry budgets passed to call(): 0..MaxRetriesBound
MaxInvocations == 2    \* invocations in one behaviour

(***************************************************************************)
(* JavaScript values, tagged by their typeof / kind                        *)
(***************************************************************************)
Undefined == [t |-> "undefined", v |-> "undefined"]
Null == [t |-> "null", v |-> "null"]
Bool(b) == [t |-> "boolean", v |-> IF b THEN "true" ELSE "false"]
Str(s) == [t |-> "string", v |-> s]
Num(n) == [t |-> "number", v |-> n]
Obj(f) == [t |-> "object", v |-> f]
Arr(s) == [t |-> "array", v |-> s]

\* typeof v
typeof(v) ==
    IF v.t \in {"null", "array"} THEN "object" ELSE v.t

\* v[k] for a property name k
Get(v, k) ==
    IF v.t = "object" /\ k \in DOMAIN v.v THEN v.v[k] ELSE Undefined

\* JavaScript truthiness
Truthy(v) ==
    CASE v.t \in {"undefined", "null"} -> FALSE
      [] v.t = "boolean" -> v.v = "true"
      [] v.t = "string" -> v.v # ""
      [] v.t = "number" -> v.v # 0
      [] OTHER -> TRUE

\* a || b
OrElse(a, b) == IF Truthy(a) THEN a ELSE b

(***************************************************************************)
(* errors.ts                                                               *)
(***************************************************************************)
NoError == [name |-> "null"]

\* the fields the constructor sets; ref is the identity of the object, given
\* by the `new` expression that allocates it (see NewAt)
CynapsApiError(message, status, code, errorId) ==
    [name |-> "CynapsApiError", message |-> message, status |-> status,
     code |-> code, errorId |-> errorId, ref |-> "unallocated"]

\* new CynapsApiError(...) evaluated at the given place of the source: two
\* errors are the same object only if they were allocated at the same place
NewAt(site, e) == [e EXCEPT !.ref = site]

NativeError(message) == [name |-> "Error", message |-> message]

\* a thrown value that is no Error at all: a string
Foreign(text) == [name |-> "string", message |-> text]

\* String(err) of such a value
String(err) == err.message

isClientError_off(e) == e.status > 400 /\ e.status < 500

isClientError(e) == e.status >= 400 /\ e.status < 500

isServerError_above(e) == e.status > 500

isServerError(e) == e.status >= 500

isAuthError(e) == e.status = 401 \/ e.status = 403

isRateLimited(e) == e.status = 429

(***************************************************************************)
(* api-client.ts: helpers                                                  *)
(***************************************************************************)
DigitVal(c) ==
    CASE c = "0" -> 0 [] c = "1" -> 1 [] c = "2" -> 2 [] c = "3" -> 3
      [] c = "4" -> 4 [] c = "5" -> 5 [] c = "6" -> 6 [] c = "7" -> 7
      [] c = "8" -> 8 [] c = "9" -> 9 [] OTHER -> -1

RECURSIVE SkipWs(_)
SkipWs(s) == IF s # <<>> /\ Head(s) = " " THEN SkipWs(Tail(s)) ELSE s

RECURSIVE ReadDigits(_, _)
ReadDigits(s, acc) ==
    IF s # <<>> /\ DigitVal(Head(s)) >= 0
    THEN ReadDigits(Tail(s), [n |-> 10 * acc.n + DigitVal(Head(s)),
                              k |-> acc.k + 1])
    ELSE acc

\* parseInt(s, 10) of a string given as its characters
parseInt(s) ==
    LET t == SkipWs(s)
        signed == t # <<>> /\ Head(t) \in {"-", "+"}
        u == IF signed THEN Tail(t) ELSE t
        r == ReadDigits(u, [n |-> 0, k |-> 0])
    IN  IF r.k = 0 THEN [nan |-> TRUE, n |-> 0]
        ELSE [nan |-> FALSE,
              n |-> IF signed /\ Head(t) = "-" THEN 0 - r.n ELSE r.n]

Min(a, b) == IF a <= b THEN a ELSE b

\* header: [present, s]; headers.get returns null when not present
parseRetryAfter(header) ==
    IF ~header.present \/ header.s = <<>> THEN 5
    ELSE LET seconds == parseInt(header.s)
         IN  IF ~seconds.nan THEN Min(seconds.n, 60) ELSE 5

\* message.includes('timeout')
IncludesTimeout(m) == m = "The operation was aborted due to timeout"

TimeoutMessage(timeout) == "Request timed out after " \o ToString(timeout) \o "ms"

HttpMessage(status) == "HTTP " \o ToString(status)

NoCode == "<undefined>"

\* the string a property holds, NoCode when it is not there
StrOr(v, k) == IF Get(v, k).t = "string" THEN Get(v, k).v ELSE NoCode

\* response.ok
ResponseOk(r) == r.status >= 200 /\ r.status <= 299

\* the error body: response.json(), or { error: `HTTP ${status}` } when the
\* body does not parse
ErrorBody(r) ==
    IF r.body.parses THEN r.body.value
    ELSE Obj([error |-> Str(HttpMessage(r.status))])

ApiErrorOf(r) ==
    LET errorBody == ErrorBody(r)
    IN  NewAt("api-client.ts:86", CynapsApiError(
            IF Truthy(Get(errorBody, "error")) THEN Get(errorBody, "error").v
            ELSE HttpMessage(r.status),
            r.status, StrOr(errorBody, "code"), StrOr(errorBody, "errorId")))

NetworkErrorOf_distinct(message, timeout) ==
    NewAt("api-client.ts:110",
          IF IncludesTimeout(message)
          THEN CynapsApiError(TimeoutMessage(timeout), 408, "TIMEOUT", NoCode)
          ELSE CynapsApiError(message, 0, "NETWORK_ERROR", NoCode))

\* the catch block's typed error for a fault that is not a CynapsApiError
NetworkErrorOf(message, timeout) ==
    NewAt("api-client.ts:110", CynapsApiError(
        IF IncludesTimeout(message) THEN TimeoutMessage(timeout) ELSE message,
        0, "NETWORK_ERROR", NoCode))

LoopContinues_short(a, budget) == a < budget

\* for (...; attempt <= maxRetries; ...)
LoopContinues(a, budget) == a <= budget

\* if (attempt < maxRetries)
AttemptsRemain(a, budget) == a < budget

RecordLast_first(prev, e) == IF prev = NoError THEN e ELSE prev

\* lastError = ...
RecordLast(prev, e) == e

BackoffDelay_flat(a) == RETRY_DELAY_MS

\* RETRY_DELAY_MS * Math.pow(2, attempt)
BackoffDelay(a) == RETRY_DELAY_MS * (2 ^ a)

\* the delay before the retry that follows a retryable HTTP failure
HttpRetryDelay(apiError, r, a) ==
    IF isRateLimited(apiError) THEN parseRetryAfter(r.retryAfter) * 1000
    ELSE BackoffDelay(a)

(***************************************************************************)
(* The environment: responses and faults                                   *)
(***************************************************************************)
NoHeader == [present |-> FALSE, s |-> <<>>]
Header(s) == [present |-> TRUE, s |-> s]

RetryAfterHeaders ==
    {NoHeader, Header(<<"3">>), Header(<<"1", "2", "0">>),
     Header(<<"s", "o", "o", "n">>)}

Parsed(j) == [parses |-> TRUE, value |-> j]
Unparsed == [parses |-> FALSE, value |-> Undefined]

\* cl0: the content-length header is '0'
Http(s, b, ra) ==
    [kind |-> "http", status |-> s, body |-> b, retryAfter |-> ra,
     cl0 |-> FALSE]

EmptyHttp(s) ==
    [kind |-> "http", status |-> s, body |-> Unparsed, retryAfter |-> NoHeader,
     cl0 |-> TRUE]
Fault(m) == [kind |-> "fault", message |-> m]

BackendErrorBody ==
    Obj([error |-> Str("Backend says no"), code |-> Str("BACKEND_CODE"),
         errorId |-> Str("err-42")])

FaultMessages == {"The operation was aborted due to timeout", "fetch failed"}

Envelope(token) ==
    Obj([confirmation_required |-> Bool(TRUE),
         autonomy_level |-> Str("suggest"),
         capability |-> Str("rate_tracks"),
         confirmation_token |-> Str(token),
         expires_in |-> Num(300),
         message |-> Str("Please confirm")])

Tokens == {"tok-abc"}

Row(id, name) == Obj([id |-> Str(id), name |-> Str(name)])

\* bodies of 2xx responses
JsonResults ==
    {Envelope(k) : k \in Tokens}
    \cup {Obj([confirmation_required |-> Bool(TRUE)]),
          Obj([confirmation_required |-> Bool(FALSE), updated |-> Num(1)]),
          Obj([confirmation_required |-> Str("true")]),
          Obj([updated |-> Num(3), message |-> Str("Ratings saved")]),
          Obj([enqueued |-> Num(1), skipped |-> Num(0), tier |-> Str("creator")]),
          Obj([enqueued |-> Num(0), skipped |-> Num(1), tier |-> Str("free")]),
          Null,
          Arr(<<>>),
          Arr(<<Row("p1", "Alpha")>>)}

Responses ==
    {Http(200, Parsed(j), NoHeader) : j \in JsonResults}
    \cup {Http(200, Unparsed, NoHeader), Http(204, Unparsed, NoHeader),
          EmptyHttp(200)}
    \cup {Http(400, Parsed(BackendErrorBody), NoHeader),
          Http(402, Parsed(BackendErrorBody), NoHeader),
          Http(404, Unparsed, NoHeader),
          Http(500, Parsed(BackendErrorBody), NoHeader),
          Http(503, Unparsed, NoHeader),
          Http(503, Parsed(BackendErrorBody), Header(<<"3">>))}
    \cup {Http(429, Parsed(BackendErrorBody), h) : h \in RetryAfterHeaders}
    \cup {Fault(m) : m \in FaultMessages}

Last(s) == s[Len(s)]

(***************************************************************************)
(* types.ts, pick.ts, result.ts, errors.ts: what the handlers are made of   *)
(***************************************************************************)
isConfirmationResponse_truthy(v) ==
    typeof(v) = "object" /\ v # Null /\ Truthy(Get(v, "confirmation_required"))

isConfirmationResponse(v) ==
    typeof(v) = "object" /\ v # Null /\ Get(v, "confirmation_required") = Bool(TRUE)

Range(s) == {s[i] : i \in DOMAIN s}

\* members every object literal inherits from Object.prototype
ObjectPrototype == {"constructor", "toString", "valueOf", "hasOwnProperty"}

\* obj[k] of an object given as a function from its own property names to
\* their values: the own property, else the inherited member, else undefined
Lookup(obj, k) ==
    IF k \in DOMAIN obj THEN obj[k]
    ELSE IF k \in ObjectPrototype THEN [t |-> "function", v |-> k]
    ELSE Undefined

pick_defined(obj, keys) ==
    [k \in {x \in Range(keys) : Lookup(obj, x) \notin {Undefined, Null}} |->
        Lookup(obj, k)]

\* for (const k of keys) if (obj[k] !== undefined) out[k] = obj[k]
pick(obj, keys) ==
    [k \in {x \in Range(keys) : Lookup(obj, x) # Undefined} |-> Lookup(obj, k)]

RECURSIVE JsonNorm(_)
\* what survives JSON.stringify: properties holding undefined or a function
\* are dropped, such elements of an array become null
JsonNorm(v) ==
    IF v.t = "object"
    THEN Obj([k \in {x \in DOMAIN v.v : v.v[x].t \notin {"undefined", "function"}} |->
                JsonNorm(v.v[k])])
    ELSE IF v.t = "array"
    THEN Arr([i \in DOMAIN v.v |->
                IF v.v[i].t \in {"undefined", "function"} THEN Null
                ELSE JsonNorm(v.v[i])])
    ELSE v

jsonResult(payload) ==
    [content |-> <<[type |-> "text", text |-> [json |-> JsonNorm(payload)]]>>,
     details |-> payload]

wrapError_rewrap(err) ==
    IF err.name = "CynapsApiError"
    THEN NewAt("errors.ts:54",
               CynapsApiError(err.message, err.status, err.code, err.errorId))
    ELSE IF err.name = "Error"
    THEN NewAt("errors.ts:54",
               CynapsApiError(err.message, 500, "PLUGIN_ERROR", NoCode))
    ELSE NewAt("errors.ts:56",
               CynapsApiError(String(err), 500, "UNKNOWN_ERROR", NoCode))

wrapError(err) ==
    IF err.name = "CynapsApiError" THEN err
    ELSE IF err.name = "Error"
    THEN NewAt("errors.ts:54",
               CynapsApiError(err.message, 500, "PLUGIN_ERROR", NoCode))
    ELSE NewAt("errors.ts:56",
               CynapsApiError(String(err), 500, "UNKNOWN_ERROR", NoCode))

NoResult == [kind |-> "none"]
Returned(v) == [kind |-> "return", value |-> v]
Thrown(e) == [kind |-> "throw", error |-> e]

(***************************************************************************)
(* musicmation-write.ts                                                    *)
(***************************************************************************)
WriteTools ==
    {"musicmation_rate_tracks", "musicmation_create_album",
     "musicmation_set_dramaturgy", "musicmation_bulk_rename"}

RpcMethod(t) ==
    CASE t = "musicmation_rate_tracks" -> "rate-tracks"
      [] t = "musicmation_create_album" -> "create-album"
      [] t = "musicmation_set_dramaturgy" -> "set-dramaturgy"
      [] t = "musicmation_bulk_rename" -> "bulk-rename-tracks"
      [] t = "musicmation_set_project_context" -> "set-project-context"

AllowList_noToken(t) ==
    CASE t = "musicmation_rate_tracks" -> <<"ratings">>
      [] t = "musicmation_create_album" ->
            <<"title", "track_ids", "project_id", "genre", "description">>
      [] t = "musicmation_set_dramaturgy" -> <<"album_id", "tracks">>
      [] t = "musicmation_bulk_rename" -> <<"renames">>
      [] t = "musicmation_set_project_context" -> <<"context">>

\* the keys each handler passes to pick()
AllowList(t) ==
    CASE t = "musicmation_rate_tracks" -> <<"ratings", "confirmation_token">>
      [] t = "musicmation_create_album" ->
            <<"title", "track_ids", "project_id", "genre", "description",
              "confirmation_token">>
      [] t = "musicmation_set_dramaturgy" ->
            <<"album_id", "tracks", "confirmation_token">>
      [] t = "musicmation_bulk_rename" -> <<"renames", "confirmation_token">>
      [] t = "musicmation_set_project_context" -> <<"context">>

Instruction(t) ==
    CASE t = "musicmation_rate_tracks" ->
            "Present this action to the user. Call again with the confirmation_token when approved."
      [] t = "musicmation_create_album" ->
            "Present this album creation to the user. Call again with the confirmation_token when approved."
      [] t = "musicmation_set_dramaturgy" ->
            "Present this dramaturgy plan to the user. Call again with the confirmation_token when approved."
      [] t = "musicmation_bulk_rename" ->
            "Present these renames to the user. Call again with the confirmation_token when approved."

\* { ...result, instruction: text }
WithInstruction(result, text) ==
    Obj([k \in DOMAIN result.v \cup {"instruction"} |->
            IF k = "instruction" THEN Str(text) ELSE result.v[k]])

WriteResult_bare(t, result) == jsonResult(result)

\* what a write tool returns for the backend result
WriteResult(t, result) ==
    IF isConfirmationResponse(result)
    THEN jsonResult(WithInstruction(result, Instruction(t)))
    ELSE jsonResult(result)

\* the required fields of each tool, as the agent fills them in
Payload(t) ==
    CASE t = "musicmation_rate_tracks" ->
            [ratings |-> Arr(<<Obj([track_id |-> Str("a"), rating |-> Num(4)])>>)]
      [] t = "musicmation_create_album" ->
            [title |-> Str("Test Album"), track_ids |-> Arr(<<Str("a")>>)]
      [] t = "musicmation_set_dramaturgy" ->
            [album_id |-> Str("album-1"),
             tracks |-> Arr(<<Obj([track_id |-> Str("a"), order |-> Num(1)])>>)]
      [] t = "musicmation_bulk_rename" ->
            [renames |-> Arr(<<Obj([id |-> Str("a"), new_title |-> Str("New Name")])>>)]
      [] t = "musicmation_set_project_context" ->
            [context |-> Obj([rules |-> Arr(<<>>)])]

\* f with the properties of g added (g wins)
Merge(f, g) ==
    [k \in DOMAIN f \cup DOMAIN g |-> IF k \in DOMAIN g THEN g[k] ELSE f[k]]

EmptyRec == [k \in {} |-> Undefined]

\* the tokens the agent may supply: none, the one it holds, a made-up one
TokenChoices ==
    {EmptyRec, [confirmation_token |-> Str("tok-forged")]}
    \cup (IF custody = "none" THEN {}
          ELSE {[confirmation_token |-> Str(custody)]})

RpcBody_held(t, p) ==
    Merge(pick(p, AllowList(t)),
          IF t \in WriteTools /\ custody # "none"
          THEN [confirmation_token |-> Str(custody)] ELSE EmptyRec)

\* the params a handler forwards: pick(params, [...])
RpcBody(t, p) == pick(p, AllowList(t))

\* a field no schema declares
ExtraChoices == {[owner_id |-> Str("attacker")]}

RpcTools == WriteTools \cup {"musicmation_set_project_context"}

ParamsOf(t) ==
    {Merge(Payload(t), k) : k \in TokenChoices \cup ExtraChoices}

\* the token the agent takes from a result it was handed
TokenIn(result) ==
    IF result.kind = "return"
       /\ Get(result.value.details, "confirmation_token").t = "string"
    THEN Get(result.value.details, "confirmation_token").v
    ELSE "none"

(***************************************************************************)
(* The state machine                                                       *)
(***************************************************************************)
MainInit ==
    /\ cpc = "none"
    /\ maxRetries = 0
    /\ attempt = 0
    /\ lastError = NoError
    /\ log = <<>>
    /\ delays = <<>>
    /\ callValue = Undefined
    /\ callError = NoError
    /\ sent = <<>>
    /\ tool = "none"
    /\ params = EmptyRec
    /\ hpc = "idle"
    /\ hresult = NoResult
    /\ step = "none"
    /\ kept = EmptyRec
    /\ req = [fn |-> "none", method |-> "none", body |-> Undefined,
              query |-> EmptyRec, headers |-> EmptyRec]
    /\ custody = "none"
    /\ invocations = 0
    /\ qlog = <<>>
    /\ calls = <<>>

\* a client made with neither a config agentId nor a context, in a process
\* whose environment names no agent
NoAgent ==
    /\ built = [config |-> Undefined, ctx |-> Undefined]
    /\ agentId = Undefined
    /\ env = [OPENCLAW_AGENT_ID |-> Undefined, CYNAPS3_AGENT_ID |-> Undefined]

Init ==
    /\ MainInit
    /\ NoAgent
    /\ probe = Undefined
    /\ verdict = Undefined

\* throw lastError ?? new CynapsApiError('Request failed after retries', 500)
FinalError(e) ==
    IF e = NoError
    THEN NewAt("api-client.ts:123",
               CynapsApiError("Request failed after retries", 500, NoCode, NoCode))
    ELSE e

\* crypto.randomUUID(): a value never drawn before, named by the invocation
\* and by the number of the header set within it
randomUUID(inv, n) == "uuid-" \o ToString(inv) \o "-" \o ToString(n)

\* fromContext(config, ctx): the agentId the constructor stores
fromContext(config, ctx) ==
    IF Truthy(Get(ctx, "agentId")) THEN Get(ctx, "agentId") ELSE config

ResolveAgent_envFirst(own, e) ==
    OrElse(e.OPENCLAW_AGENT_ID, OrElse(e.CYNAPS3_AGENT_ID, own))

\* this.agentId || process.env.OPENCLAW_AGENT_ID || process.env.CYNAPS3_AGENT_ID
ResolveAgent(own, e) ==
    OrElse(own, OrElse(e.OPENCLAW_AGENT_ID, e.CYNAPS3_AGENT_ID))

\* buildHeaders(), with the UUID it draws
buildHeaders(uuid) ==
    LET headers ==
            [h \in {"Content-Type", "apikey", "Authorization", "X-CLI-User-Id",
                    "X-Request-ID"} |->
                CASE h = "Content-Type" -> "application/json"
                  [] h = "apikey" -> "anon-key"
                  [] h = "Authorization" -> "Bearer service-role-key"
                  [] h = "X-CLI-User-Id" -> "user-1"
                  [] h = "X-Request-ID" -> uuid]
        agent == ResolveAgent(agentId, env)
    IN  IF Truthy(agent) THEN Merge(headers, "X-Agent-Id" :> agent.v)
        ELSE headers

Outbound_rebuilt(request, a) ==
    [request EXCEPT !.headers =
        buildHeaders(request.headers["X-Request-ID"] \o "-" \o ToString(a))]

\* fetch(url, { method, headers, body }) of attempt a: url, method, headers
\* and body are the ones computed before the loop
Outbound(request, a) == request

\* the locals of the call() in progress
Locals ==
    [cpc |-> cpc, maxRetries |-> maxRetries, attempt |-> attempt,
     lastError |-> lastError, log |-> log, delays |-> delays,
     callValue |-> callValue, callError |-> callError]

\* call() goes on with the locals f
Resume(f) ==
    /\ cpc' = f.cpc
    /\ maxRetries' = f.maxRetries
    /\ attempt' = f.attempt
    /\ lastError' = f.lastError
    /\ log' = f.log
    /\ delays' = f.delays
    /\ callValue' = f.callValue
    /\ callError' = f.callError

\* the locals of call() at its first await, for a retry budget
Started(budget) ==
    [cpc |-> IF LoopContinues(0, budget) THEN "fetch" ELSE "fail",
     maxRetries |-> budget, attempt |-> 0, lastError |-> NoError,
     log |-> <<>>, delays |-> <<>>, callValue |-> Undefined,
     callError |-> IF LoopContinues(0, budget) THEN NoError
                   ELSE FinalError(NoError)]

\* call(functionName, body, options) up to its first await
StartCall(fn, method, body, budget, uuid) ==
    /\ req' = [fn |-> fn, method |-> method, body |-> body, query |-> EmptyRec,
               headers |-> buildHeaders(uuid)]
    /\ Resume(Started(budget))

\* rpc(method, params): call('agent-tools', { method, params })
StartRpc(method, p, uuid) ==
    StartCall("agent-tools", "POST",
              Obj([method |-> Str(method), params |-> Obj(p)]), MAX_RETRIES, uuid)

\* no call() is in progress: its locals are gone
NoCall ==
    /\ cpc' = "none"
    /\ maxRetries' = 0
    /\ attempt' = 0
    /\ lastError' = NoError
    /\ log' = <<>>
    /\ delays' = <<>>
    /\ callValue' = Undefined
    /\ callError' = NoError

CanInvoke == hpc \in {"idle", "returned", "threw"} /\ invocations < MaxInvocations

Begin(t, p) ==
    /\ tool' = t
    /\ params' = p
    /\ hpc' = "await"
    /\ hresult' = NoResult
    /\ sent' = <<>>
    /\ qlog' = <<>>
    /\ kept' = EmptyRec
    /\ invocations' = invocations + 1
    /\ UNCHANGED <<custody, pureVars>>

\* a caller that uses call() itself, with a retry budget of its own
DirectCall ==
    /\ CanInvoke
    /\ \E budget \in 0..MaxRetriesBound :
          /\ Begin("direct", EmptyRec)
          /\ step' = "call"
          /\ StartCall("suno-proxy", "POST",
                       Obj([method |-> Str("generateLyrics")]), budget,
                       randomUUID(invocations + 1, 1))

\* execute() of a write tool or of set_project_context, up to the await
InvokeRpcTool ==
    /\ CanInvoke
    /\ \E t \in RpcTools : \E p \in ParamsOf(t) :
          /\ Begin(t, p)
          /\ step' = "rpc"
          /\ StartRpc(RpcMethod(t), RpcBody(t, p), randomUUID(invocations + 1, 1))

NextIteration_more(f) ==
    IF f.attempt + 1 <= f.maxRetries + 1
    THEN [f EXCEPT !.attempt = @ + 1, !.cpc = "fetch"]
    ELSE [f EXCEPT !.attempt = @ + 1, !.cpc = "fail",
                   !.callError = FinalError(f.lastError)]

\* attempt++ and the test of the loop; after the loop, the throw
NextIteration(f) ==
    IF LoopContinues(f.attempt + 1, f.maxRetries)
    THEN [f EXCEPT !.attempt = @ + 1, !.cpc = "fetch"]
    ELSE [f EXCEPT !.attempt = @ + 1, !.cpc = "fail",
                   !.callError = FinalError(f.lastError)]

\* the rest of the loop body once the attempt has failed with error e:
\* lastError = e, then the sleep while attempts remain
AfterFailure(f, e, delay) ==
    IF AttemptsRemain(f.attempt, f.maxRetries)
    THEN [f EXCEPT !.lastError = e, !.cpc = "sleep",
                   !.delays = Append(@, delay)]
    ELSE NextIteration([f EXCEPT !.lastError = e])

\* one attempt of call() with locals f whose fetch is answered by r:
\* everything up to the next await, the return or the throw
Received(f, r) ==
    LET g == [f EXCEPT !.log = Append(@, r)]
    IN  IF r.kind = "http" /\ ResponseOk(r) /\ r.body.parses
        THEN [g EXCEPT !.cpc = "ok", !.callValue = r.body.value]
        ELSE IF r.kind = "http" /\ ~ResponseOk(r)
        THEN LET apiError == ApiErrorOf(r)
             IN  IF isClientError(apiError)
                 THEN [g EXCEPT !.cpc = "fail", !.callError = apiError]
                 ELSE AfterFailure(g, RecordLast(f.lastError, apiError),
                                   HttpRetryDelay(apiError, r, f.attempt))
        ELSE LET message == IF r.kind = "fault" THEN r.message
                            ELSE "Unexpected end of JSON input"
             IN  AfterFailure(g,
                     RecordLast(f.lastError,
                                NetworkErrorOf(message, DEFAULT_TIMEOUT_MS)),
                     BackoffDelay(f.attempt))

\* one attempt of the call() in progress
AttemptOn(responses) ==
    /\ cpc = "fetch"
    /\ \E r \in responses :
          /\ sent' = Append(sent, Outbound(req, attempt))
          /\ Resume(Received(Locals, r))
    /\ UNCHANGED <<tool, params, hpc, hresult, step, kept, req,
                   custody, invocations, pureVars, qlog>>

Attempt == AttemptOn(Responses)

\* sleep() is over: continue with the next iteration
Wake ==
    /\ cpc = "sleep"
    /\ Resume(NextIteration(Locals))
    /\ UNCHANGED <<sent, tool, params, hpc, hresult, step, kept, req, custody,
                   invocations, pureVars, qlog>>

\* how an invocation ends: the handler's result, and the agent keeping the
\* token of an envelope it is handed
FinishWith(result) ==
    /\ hresult' = result
    /\ hpc' = IF result.kind = "return" THEN "returned" ELSE "threw"
    /\ custody' = IF TokenIn(result) # "none" THEN TokenIn(result) ELSE custody

SettleFrame ==
    UNCHANGED <<callVars, sent, qlog, tool, params, step, kept, req,
                invocations, pureVars>>

\* the direct caller gets the value or the error of call() as it is
SettleDirect ==
    /\ hpc = "await" /\ tool = "direct" /\ cpc \in {"ok", "fail"}
    /\ FinishWith(IF cpc = "ok" THEN Returned(jsonResult(callValue))
                  ELSE Thrown(callError))
    /\ SettleFrame

\* a write tool after its await: the envelope check, jsonResult, wrapError
SettleWrite ==
    /\ hpc = "await" /\ tool \in WriteTools /\ cpc \in {"ok", "fail"}
    /\ FinishWith(IF cpc = "ok" THEN Returned(WriteResult(tool, callValue))
                  ELSE Thrown(wrapError(callError)))
    /\ SettleFrame

\* set_project_context after its await
SettleContext ==
    /\ hpc = "await" /\ tool = "musicmation_set_project_context"
    /\ cpc \in {"ok", "fail"}
    /\ FinishWith(IF cpc = "ok" THEN Returned(jsonResult(callValue))
                  ELSE Thrown(wrapError(callError)))
    /\ SettleFrame

(***************************************************************************)
(* api-client.ts: query()                                                  *)
(***************************************************************************)
\* what query() does with the response to its one fetch
QueryOutcome(r) ==
    IF r.kind = "fault" THEN Thrown(NativeError(r.message))
    ELSE IF ~ResponseOk(r)
    THEN LET errorBody == ErrorBody(r)
         IN  Thrown(NewAt("api-client.ts:181", CynapsApiError(
                 IF Truthy(Get(errorBody, "error")) THEN Get(errorBody, "error").v
                 ELSE HttpMessage(r.status),
                 r.status, StrOr(errorBody, "code"), NoCode)))
    ELSE IF r.status = 204 \/ r.cl0 THEN Returned(Arr(<<>>))
    ELSE IF r.body.parses THEN Returned(r.body.value)
    ELSE Thrown(NativeError("Unexpected end of JSON input"))

\* url, method, headers and body of the fetch of query()
QueryReq(table, filters, method, body, uuid) ==
    [fn |-> "skill-api/" \o table, method |-> method, body |-> body,
     query |-> filters,
     headers |-> IF method \in {"POST", "PATCH"}
                 THEN Merge(buildHeaders(uuid), [Prefer |-> "return=representation"])
                 ELSE buildHeaders(uuid)]

\* rows?.[0]
First(rows) ==
    IF rows.t = "array" THEN (IF Len(rows.v) >= 1 THEN rows.v[1] ELSE Undefined)
    ELSE IF rows.t = "string"
    THEN (IF rows.v # "" THEN Str("<first character>") ELSE Undefined)
    ELSE Undefined

\* params[k]
P(p, k) == IF k \in DOMAIN p THEN p[k] ELSE Undefined

\* the text a template literal gives for a string value
Text(v) == IF v.t = "string" THEN v.v ELSE v.t

(***************************************************************************)
(* musicmation-projects.ts, musicmation-content.ts                         *)
(***************************************************************************)
FALLBACK_GRADIENT == "linear(to-r, #1e1b4b, #312e81, #1e3a8a)"

\* GRADIENT_BY_TYPE[contentType], undefined for a type it does not list
GRADIENT_BY_TYPE(contentType) ==
    CASE contentType = Str("music") -> Str("linear(to-r, #f97316, #ea580c, #dc2626)")
      [] contentType = Str("meditation") -> Str("linear(to-r, #667eea, #764ba2, #5b3a8f)")
      [] OTHER -> Undefined

GeneratedId(prefix) == Str(prefix \o "_1700000000_deadbeef")

\* the fields copied with `if (params[key] !== undefined) body[key] = params[key]`
CopyDefined(p, keys) == pick(p, keys)

ProjectUpdatable ==
    <<"name", "description", "content_type", "copyright", "header_gradient",
      "artwork_url">>

ItemUpdatable ==
    <<"project_id", "title", "status", "transcript", "transcript_draft",
      "short_summary", "copyright", "artist", "composer", "genre", "mood",
      "tone", "instrument", "album", "style_d", "style_e", "style_f",
      "sub_cluster", "type", "series_name", "part", "image_url", "audio_url",
      "rating", "shortlisted", "selected_for_upload", "done_flag">>

ItemOptional ==
    <<"transcript", "transcript_draft", "short_summary", "copyright",
      "artist", "composer", "genre", "mood", "tone", "instrument", "album",
      "style_d", "style_e", "style_f", "sub_cluster", "type", "series_name",
      "part", "image_url", "audio_url", "generation_source">>

CreateTools == {"musicmation_create_project", "musicmation_create_item"}
UpdateTools == {"musicmation_update_project", "musicmation_update_item"}

\* the body create_project and create_item POST
CreateBody(t, p) ==
    IF t = "musicmation_create_project"
    THEN [id |-> GeneratedId("proj"),
          name |-> P(p, "name"),
          content_type |-> P(p, "content_type"),
          description |-> OrElse(P(p, "description"), Null),
          header_gradient |->
              OrElse(P(p, "header_gradient"),
                     OrElse(GRADIENT_BY_TYPE(P(p, "content_type")),
                            Str(FALLBACK_GRADIENT)))]
    ELSE Merge([id |-> GeneratedId("item"),
                title |-> P(p, "title"),
                project_id |-> P(p, "project_id"),
                item_type |-> OrElse(P(p, "item_type"), Str("track")),
                status |-> OrElse(P(p, "status"), Str("draft"))],
               CopyDefined(p, ItemOptional))

\* the body update_project and update_item PATCH
UpdateBody(t, p) ==
    IF t = "musicmation_update_project"
    THEN LET body == CopyDefined(p, ProjectUpdatable)
         IN  IF Truthy(P(body, "content_type")) /\ ~Truthy(P(body, "header_gradient"))
             THEN Merge(body,
                        [header_gradient |->
                            OrElse(GRADIENT_BY_TYPE(body["content_type"]),
                                   Str(FALLBACK_GRADIENT))])
             ELSE body
    ELSE CopyDefined(p, ItemUpdatable)

TableOf(t) ==
    IF t \in {"musicmation_create_project", "musicmation_update_project",
              "musicmation_delete_project"}
    THEN "sunoma_projects" ELSE "sunoma_items"

IdParam(t) == IF t = "musicmation_update_project" THEN "project_id" ELSE "item_id"

EqFilter(v) == [id |-> "eq." \o Text(v)]

CreatedMessage(t, p) ==
    IF t = "musicmation_create_project"
    THEN "Project \"" \o Text(P(p, "name")) \o "\" created successfully."
    ELSE "Item \"" \o Text(P(p, "title")) \o "\" created successfully."

CreateFailed(t) ==
    NewAt(IF t = "musicmation_create_project"
          THEN "musicmation-projects.ts:110" ELSE "musicmation-content.ts:114",
          CynapsApiError(
              IF t = "musicmation_create_project"
              THEN "Failed to create project - no ID returned"
              ELSE "Failed to create item - no ID returned",
              500, "CREATE_FAILED", NoCode))

\* create_project / create_item after the await of the POST
CreateResult(t, p, outcome) ==
    IF outcome.kind = "throw" THEN Thrown(wrapError(outcome.error))
    ELSE LET row == First(outcome.value)
         IN  IF ~Truthy(row) THEN Thrown(wrapError(CreateFailed(t)))
             ELSE Returned(jsonResult(
                    IF t = "musicmation_create_project"
                    THEN Obj([project |-> row, message |-> Str(CreatedMessage(t, p))])
                    ELSE Obj([item |-> row, message |-> Str(CreatedMessage(t, p))])))

UpdateResult_strict(t, p, outcome) ==
    IF outcome.kind = "throw" THEN Thrown(wrapError(outcome.error))
    ELSE LET row == First(outcome.value)
         IN  IF ~Truthy(row) THEN Thrown(wrapError(CreateFailed(t)))
             ELSE Returned(jsonResult(
                    IF t = "musicmation_update_project"
                    THEN Obj([project |-> row,
                              message |-> Str("Project updated successfully.")])
                    ELSE Obj([item |-> row,
                              message |-> Str("Item updated successfully.")])))

\* update_project / update_item after the await of the PATCH
UpdateResult(t, p, outcome) ==
    IF outcome.kind = "throw" THEN Thrown(wrapError(outcome.error))
    ELSE LET row == OrElse(First(outcome.value), Obj([id |-> P(p, IdParam(t))]))
         IN  Returned(jsonResult(
                IF t = "musicmation_update_project"
                THEN Obj([project |-> row,
                          message |-> Str("Project updated successfully.")])
                ELSE Obj([item |-> row,
                          message |-> Str("Item updated successfully.")])))

NoFieldsResult == Returned(jsonResult(Obj([message |-> Str("No fields to update.")])))

\* what the agent passes to the project and content tools
QueryPayloads(t) ==
    CASE t = "musicmation_create_project" ->
            {[name |-> Str("Alpha"), content_type |-> Str("music")],
             [name |-> Str("Alpha"), content_type |-> Str("podcast"),
              description |-> Str("talk")]}
      [] t = "musicmation_create_item" ->
            {[title |-> Str("Song"), project_id |-> Str("p1")],
             [title |-> Str("Song"), project_id |-> Str("p1"),
              genre |-> Str("ambient"), status |-> Str("ready")]}
      [] t = "musicmation_update_project" ->
            {[project_id |-> Str("p1")],
             [project_id |-> Str("p1"), name |-> Str("Beta")],
             [project_id |-> Str("p1"), content_type |-> Str("meditation")]}
      [] t = "musicmation_update_item" ->
            {[item_id |-> Str("i1")],
             [item_id |-> Str("i1"), title |-> Str("Song 2"), rating |-> Num(7)]}
      [] t = "musicmation_delete_project" ->
            {[project_id |-> Str("p1"), confirm_name |-> Str(n)] :
                n \in {"Alpha", "alpha"}}
      [] t = "musicmation_generate" ->
            {[title |-> Str("My Track")],
             [title |-> Str("My Track"), project_id |-> Str("p1"),
              provider |-> Str("sonauto")]}

QueryParamsOf(t) == {Merge(q, k) : q \in QueryPayloads(t), k \in TokenChoices}

QueryFrame == UNCHANGED <<tool, params, invocations, pureVars>>

Asked(r) == sent' = Append(sent, req) /\ qlog' = Append(qlog, r)

\* execute() of create_project / create_item up to the await of the POST
InvokeCreate ==
    /\ CanInvoke
    /\ \E t \in CreateTools : \E p \in QueryParamsOf(t) :
          /\ Begin(t, p)
          /\ step' = "create"
          /\ req' = QueryReq(TableOf(t), EmptyRec, "POST", Obj(CreateBody(t, p)),
                             randomUUID(invocations + 1, 1))
    /\ NoCall

CreateReply ==
    /\ hpc = "await" /\ tool \in CreateTools /\ step = "create"
    /\ \E r \in Responses :
          /\ Asked(r)
          /\ FinishWith(CreateResult(tool, params, QueryOutcome(r)))
    /\ UNCHANGED <<callVars, step, kept, req>>
    /\ QueryFrame

\* execute() of update_project / update_item up to the await of the PATCH,
\* or to the early return when no field is given
InvokeUpdate ==
    /\ CanInvoke
    /\ \E t \in UpdateTools : \E p \in QueryParamsOf(t) :
          /\ tool' = t
          /\ params' = p
          /\ sent' = <<>>
          /\ qlog' = <<>>
          /\ kept' = EmptyRec
          /\ invocations' = invocations + 1
          /\ IF DOMAIN CopyDefined(p, IF t = "musicmation_update_project"
                                      THEN ProjectUpdatable ELSE ItemUpdatable) = {}
             THEN /\ FinishWith(NoFieldsResult)
                  /\ UNCHANGED <<step, req>>
             ELSE /\ hpc' = "await"
                  /\ hresult' = NoResult
                  /\ custody' = custody
                  /\ step' = "patch"
                  /\ req' = QueryReq(TableOf(t), EqFilter(P(p, IdParam(t))),
                                     "PATCH", Obj(UpdateBody(t, p)),
                                     randomUUID(invocations + 1, 1))
    /\ NoCall
    /\ UNCHANGED pureVars

PatchReply ==
    /\ hpc = "await" /\ tool \in UpdateTools /\ step = "patch"
    /\ \E r \in Responses :
          /\ Asked(r)
          /\ FinishWith(UpdateResult(tool, params, QueryOutcome(r)))
    /\ UNCHANGED <<callVars, step, kept, req>>
    /\ QueryFrame

\* execute() of delete_project up to the await of the read
InvokeDelete ==
    /\ CanInvoke
    /\ \E p \in QueryParamsOf("musicmation_delete_project") :
          /\ Begin("musicmation_delete_project", p)
          /\ step' = "read"
          /\ req' = QueryReq("sunoma_projects",
                             Merge(EqFilter(P(p, "project_id")),
                                   [select |-> "id,name"]),
                             "GET", Undefined, randomUUID(invocations + 1, 1))
    /\ NoCall

NotFoundResult ==
    Returned(jsonResult(Obj([error |-> Str("Project not found."),
                             deleted |-> Bool(FALSE)])))

MismatchResult(confirmName, name) ==
    Returned(jsonResult(Obj(
        [error |-> Str("Confirmation name \"" \o Text(confirmName)
                       \o "\" does not match project name \"" \o Text(name)
                       \o "\". Deletion aborted."),
         deleted |-> Bool(FALSE),
         hint |-> Str("Ask the user to type the exact project name to confirm.")])))

NameMatches_any(project, confirmName) == TRUE

\* project.name !== confirmName, negated
NameMatches(project, confirmName) == Get(project, "name") = confirmName

\* delete_project after the read: not found, name mismatch, or the DELETE
DeleteReadReply ==
    /\ hpc = "await" /\ tool = "musicmation_delete_project" /\ step = "read"
    /\ \E r \in Responses :
          /\ Asked(r)
          /\ LET outcome == QueryOutcome(r)
                 project == First(outcome.value)
             IN  IF outcome.kind = "throw"
                 THEN /\ FinishWith(Thrown(wrapError(outcome.error)))
                      /\ UNCHANGED <<step, kept, req>>
                 ELSE IF ~Truthy(project)
                 THEN /\ FinishWith(NotFoundResult)
                      /\ UNCHANGED <<step, kept, req>>
                 ELSE IF ~NameMatches(project, P(params, "confirm_name"))
                 THEN /\ FinishWith(MismatchResult(P(params, "confirm_name"),
                                                   Get(project, "name")))
                      /\ UNCHANGED <<step, kept, req>>
                 ELSE /\ step' = "delete"
                      /\ kept' = [project |-> project]
                      /\ req' = QueryReq("sunoma_projects",
                                         EqFilter(P(params, "project_id")),
                                         "DELETE", Undefined,
                                         randomUUID(invocations, 2))
                      /\ UNCHANGED <<hpc, hresult, custody>>
    /\ UNCHANGED callVars
    /\ QueryFrame

DeletedResult(project) ==
    Returned(jsonResult(Obj(
        [deleted |-> Bool(TRUE),
         message |-> Str("Project \"" \o Text(Get(project, "name"))
                         \o "\" and all its content have been permanently deleted.")])))

\* delete_project after the DELETE
DeleteReply ==
    /\ hpc = "await" /\ tool = "musicmation_delete_project" /\ step = "delete"
    /\ \E r \in Responses :
          /\ Asked(r)
          /\ LET outcome == QueryOutcome(r)
             IN  FinishWith(IF outcome.kind = "throw"
                            THEN Thrown(wrapError(outcome.error))
                            ELSE DeletedResult(kept["project"]))
    /\ UNCHANGED <<callVars, step, kept, req>>
    /\ QueryFrame

(***************************************************************************)
(* musicmation-generate.ts: musicmation_generate                           *)
(***************************************************************************)
Provider(p) == OrElse(P(p, "provider"), Str("suno"))

IsSonauto(p) == Provider(p) = Str("sonauto")

\* a ?? b
Coalesce(a, b) == IF a \in {Undefined, Null} THEN b ELSE a

GenerateCreateBody(p) ==
    [id |-> GeneratedId("track"),
     title |-> P(p, "title"),
     transcript |-> OrElse(P(p, "lyrics"), Str("")),
     style_tags |-> OrElse(P(p, "style_tags"), Str("")),
     project_id |-> OrElse(P(p, "project_id"), Null),
     item_type |-> Str("track"),
     mood |-> OrElse(P(p, "mood"), Null),
     genre |-> OrElse(P(p, "genre"), Null),
     status |-> Str("draft"),
     generation_source |-> IF IsSonauto(p) THEN Str("sonauto") ELSE Str("suno")]

EnqueueEndpoint(p) ==
    IF IsSonauto(p) THEN "sonauto-generation-enqueue" ELSE "suno-generation-enqueue"

\* fractions are kept as text: 2.0, 0.5 and 0.83 are not integers
EnqueueBody(p, trackId) ==
    IF IsSonauto(p)
    THEN [trackIds |-> Arr(<<trackId>>),
          projectId |-> OrElse(P(p, "project_id"), Null),
          generationsRequested |-> Num(1),
          prompt_strength |-> Coalesce(P(p, "prompt_strength"), Str("2.0")),
          output_format |-> OrElse(P(p, "output_format"), Str("ogg")),
          align_lyrics |-> Coalesce(P(p, "align_lyrics"), Bool(FALSE))]
    ELSE [trackIds |-> Arr(<<trackId>>),
          projectId |-> OrElse(P(p, "project_id"), Null),
          generationsRequested |-> Num(1),
          model |-> OrElse(P(p, "model"), Str("V5")),
          weirdness |-> Coalesce(P(p, "weirdness"), Str("0.5")),
          styleWeight |-> Coalesce(P(p, "style_weight"), Str("0.83"))]

TrackCreateFailed ==
    NewAt("musicmation-generate.ts:145",
          CynapsApiError("Failed to create track item - no ID returned", 500,
                         "CREATE_FAILED", NoCode))

\* execute() of musicmation_generate up to the await of the create step
InvokeGenerate ==
    /\ CanInvoke
    /\ \E p \in QueryParamsOf("musicmation_generate") :
          /\ Begin("musicmation_generate", p)
          /\ step' = "create"
          /\ req' = QueryReq("sunoma_items", EmptyRec, "POST",
                             Obj(GenerateCreateBody(p)),
                             randomUUID(invocations + 1, 1))
    /\ NoCall

\* musicmation_generate after the create step: a throw of query() leaves
\* execute() as it is (the create step is outside the try block)
GenerateCreateReply ==
    /\ hpc = "await" /\ tool = "musicmation_generate" /\ step = "create"
    /\ \E r \in Responses :
          /\ Asked(r)
          /\ LET outcome == QueryOutcome(r)
                 trackId == Get(First(outcome.value), "id")
             IN  IF outcome.kind = "throw"
                 THEN /\ FinishWith(Thrown(outcome.error))
                      /\ UNCHANGED <<callVars, step, kept, req>>
                 ELSE IF ~Truthy(trackId)
                 THEN /\ FinishWith(Thrown(TrackCreateFailed))
                      /\ UNCHANGED <<callVars, step, kept, req>>
                 ELSE /\ step' = "enqueue"
                      /\ kept' = [trackId |-> trackId]
                      /\ StartCall(EnqueueEndpoint(params), "POST",
                                   Obj(EnqueueBody(params, trackId)), MAX_RETRIES,
                                   randomUUID(invocations, 2))
                      /\ UNCHANGED <<hpc, hresult, custody>>
    /\ QueryFrame

userMessage_leaky(e) ==
    IF isAuthError(e) THEN "Having trouble connecting - try again in a moment."
    ELSE e.message

\* userMessage of a typed error
userMessage(e) ==
    IF isAuthError(e) THEN "Having trouble connecting - try again in a moment."
    ELSE IF isRateLimited(e) THEN e.message
    ELSE IF isServerError(e)
    THEN "Something went wrong on our end. Please try again."
    ELSE e.message

\* v > 0 for the values an enqueue result can hold
Positive(v) == (v.t = "number" /\ v.v > 0) \/ v = Bool(TRUE)

PartialResult_hidden(p, trackId, err) ==
    jsonResult(Obj(
        [provider |-> Provider(p),
         enqueued |-> Bool(FALSE),
         tier |-> Str("unknown"),
         message |-> Str(Text(Provider(p)) \o " generation failed: "
                         \o userMessage(wrapError(err)))]))

\* the catch block of the enqueue step: partial success
PartialResult(p, trackId, err) ==
    jsonResult(Obj(
        [track_id |-> trackId,
         provider |-> Provider(p),
         enqueued |-> Bool(FALSE),
         tier |-> Str("unknown"),
         message |-> Str("Track created (" \o Text(trackId) \o ") but "
                         \o Text(Provider(p)) \o " generation failed: "
                         \o userMessage(wrapError(err)))]))

EnqueuedResult(p, trackId, result) ==
    jsonResult(Obj(
        [track_id |-> trackId,
         provider |-> Provider(p),
         enqueued |-> Bool(Positive(Get(result, "enqueued"))),
         tier |-> Get(result, "tier"),
         message |->
            IF Positive(Get(result, "enqueued"))
            THEN Str("Track \"" \o Text(P(p, "title")) \o "\" enqueued via "
                     \o Text(Provider(p)) \o ". Generating "
                     \o (IF IsSonauto(p) THEN "1 song" ELSE "2 variations")
                     \o " - takes 30-90 seconds.")
            ELSE Str("Track created but generation failed. "
                     \o Text(Get(result, "skipped")) \o " skipped.")]))

\* musicmation_generate after the enqueue step: reading a property of null
\* throws inside the try block and ends in the catch as well
SettleGenerate ==
    /\ hpc = "await" /\ tool = "musicmation_generate" /\ step = "enqueue"
    /\ cpc \in {"ok", "fail"}
    /\ FinishWith(
          IF cpc = "fail"
          THEN Returned(PartialResult(params, kept["trackId"], callError))
          ELSE IF callValue \in {Null, Undefined}
          THEN Returned(PartialResult(params, kept["trackId"],
                    NativeError("Cannot read properties of null (reading 'enqueued')")))
          ELSE Returned(EnqueuedResult(params, kept["trackId"], callValue)))
    /\ SettleFrame

Next ==
    \/ DirectCall
    \/ InvokeRpcTool
    \/ Attempt
    \/ Wake
    \/ SettleDirect
    \/ SettleWrite
    \/ SettleContext
    \/ InvokeCreate
    \/ CreateReply
    \/ InvokeUpdate
    \/ PatchReply
    \/ InvokeDelete
    \/ DeleteReadReply
    \/ DeleteReply
    \/ InvokeGenerate
    \/ GenerateCreateReply
    \/ SettleGenerate

Spec == Init /\ [][Next]_vars

(***************************************************************************)
(* isConfirmationResponse on its own: the input is drawn in GuardInit       *)
(***************************************************************************)
FlagChoices ==
    {EmptyRec} \cup
    {[confirmation_required |-> x] :
        x \in {Bool(TRUE), Bool(FALSE), Str("true"), Str(""), Num(1), Num(0),
               Null, Undefined, Obj([value |-> Bool(TRUE)]), Arr(<<Bool(TRUE)>>)}}

OtherFieldChoices ==
    {EmptyRec, [confirmation_token |-> Str("tok-abc")], [ready |-> Bool(TRUE)],
     [confirmation_token |-> Str("tok-abc"), message |-> Str("Please confirm")],
     [updated |-> Num(3)]}

GuardInputs ==
    {Obj(Merge(f, o)) : f \in FlagChoices, o \in OtherFieldChoices}
    \cup {Undefined, Null, Str("hello"), Str("true"), Num(42), Num(0),
          Bool(TRUE), Bool(FALSE), Arr(<<>>), Arr(<<Bool(TRUE)>>)}
    \cup JsonResults

GuardInit ==
    /\ MainInit
    /\ NoAgent
    /\ probe \in GuardInputs
    /\ verdict = Undefined

ApplyGuard ==
    /\ verdict = Undefined
    /\ verdict' = Bool(isConfirmationResponse(probe))
    /\ UNCHANGED <<cpc, maxRetries, attempt, lastError, log, delays, callValue,
                   callError, sent, tool, params, hpc, hresult, step, kept, req,
                   custody, invocations, probe, qlog, built, agentId, env, calls>>

GuardNext == ApplyGuard

GuardSpec == GuardInit /\ [][GuardNext]_vars

(***************************************************************************)
(* pick on its own: the input record and the allow-list are drawn in       *)
(* PickInit                                                                *)
(***************************************************************************)
MaxAllowList == 2   \* names in an allow-list: 0..MaxAllowList

PickNames == {"mood", "genre", "evil", "constructor"}

PickValues == {Undefined, Null, Str("calm")}

\* input records: any own properties over the names
PickRecords ==
    UNION {[own -> PickValues] : own \in SUBSET PickNames}

RECURSIVE ListsOver(_, _)
\* the sequences of at most n names
ListsOver(names, n) ==
    IF n = 0 THEN {<<>>}
    ELSE ListsOver(names, n - 1)
         \cup {Append(l, x) : l \in ListsOver(names, n - 1), x \in names}

PickInputs ==
    {[obj |-> o, keys |-> l] : o \in PickRecords,
                               l \in ListsOver(PickNames, MaxAllowList)}

PickInit ==
    /\ MainInit
    /\ NoAgent
    /\ probe \in PickInputs
    /\ verdict = Undefined

ApplyPick ==
    /\ verdict = Undefined
    /\ verdict' = Obj(pick(probe.obj, probe.keys))
    /\ UNCHANGED <<cpc, maxRetries, attempt, lastError, log, delays, callValue,
                   callError, sent, tool, params, hpc, hresult, step, kept, req,
                   custody, invocations, probe, qlog, built, agentId, env, calls>>

PickNext == ApplyPick

PickSpec == PickInit /\ [][PickNext]_vars

(***************************************************************************)
(* errors.ts on its own: the thrown value is drawn in ErrorInit; a handler  *)
(* catches it and rethrows wrapError(err), a caller reads the getters       *)
(***************************************************************************)
MaxStatus == 600   \* statuses of typed errors: 0, 200 and 399..MaxStatus

ErrorStatuses == {0, 200} \cup (399..MaxStatus)

RawMessages == {"relation sunoma_items: permission denied", "Rate limit"}

\* typed errors with any status, message and code
TypedErrors ==
    {NewAt("caller", CynapsApiError(m, st, c, NoCode)) :
        m \in RawMessages, st \in ErrorStatuses, c \in {NoCode, "RATE_LIMITED"}}

\* the typed errors call() and query() throw for the modelled responses
ClientErrors ==
    {ApiErrorOf(r) : r \in {x \in Responses : x.kind = "http" /\ ~ResponseOk(x)}}
    \cup {NetworkErrorOf(m, DEFAULT_TIMEOUT_MS) : m \in FaultMessages}
    \cup {FinalError(NoError)}
    \cup {QueryOutcome(r).error :
            r \in {x \in Responses : x.kind = "http" /\ ~ResponseOk(x)}}

ThrownValues ==
    TypedErrors \cup ClientErrors
    \cup {NativeError("Connection refused"), NativeError("fetch failed"),
          Foreign("unexpected string error"), Foreign("")}

ErrorInit ==
    /\ MainInit
    /\ NoAgent
    /\ probe \in ThrownValues
    /\ verdict = Undefined

ErrorFrame ==
    UNCHANGED <<cpc, maxRetries, attempt, lastError, log, delays, callValue,
                callError, sent, tool, params, hpc, hresult, step, kept, req,
                custody, invocations, probe, qlog, built, agentId, env, calls>>

\* catch (err) { throw wrapError(err) }
Rethrow ==
    /\ verdict = Undefined
    /\ verdict' = [op |-> "wrapError", out |-> wrapError(probe)]
    /\ ErrorFrame

\* the rethrown error caught and wrapped once more, one level up
RethrowAgain ==
    /\ verdict # Undefined
    /\ verdict.op = "wrapError"
    /\ verdict' = [op |-> "wrapError twice", once |-> verdict.out,
                   out |-> wrapError(verdict.out)]
    /\ ErrorFrame

\* the getters of a typed error
ReadGetters ==
    /\ verdict = Undefined
    /\ probe.name = "CynapsApiError"
    /\ verdict' = [op |-> "getters",
                   isClientError |-> isClientError(probe),
                   isServerError |-> isServerError(probe),
                   isAuthError |-> isAuthError(probe),
                   isRateLimited |-> isRateLimited(probe),
                   userMessage |-> userMessage(probe)]
    /\ ErrorFrame

ErrorNext ==
    \/ Rethrow
    \/ RethrowAgain
    \/ ReadGetters

ErrorSpec == ErrorInit /\ [][ErrorNext]_vars

(***************************************************************************)
(* The agent identity: clients made by fromContext() from any config and   *)
(* context, in a process whose environment changes while calls are under   *)
(* way                                                                     *)
(***************************************************************************)
ConfigAgentChoices == {Undefined, Str(""), Str("config-agent")}

ContextChoices ==
    {Undefined, Obj(EmptyRec), Obj([agentId |-> Str("")]),
     Obj([agentId |-> Str("context-agent")])}

EnvChoices ==
    {[OPENCLAW_AGENT_ID |-> a, CYNAPS3_AGENT_ID |-> b] :
        a \in {Undefined, Str(""), Str("openclaw-agent")},
        b \in {Undefined, Str("cynaps3-agent")}}

IdentityInit ==
    /\ MainInit
    /\ probe = Undefined
    /\ verdict = Undefined
    /\ built \in [config : ConfigAgentChoices, ctx : ContextChoices]
    /\ agentId = fromContext(built.config, built.ctx)
    /\ env \in EnvChoices

\* the process environment is changed (a sub-agent is given its identity)
SetEnv ==
    /\ \E e \in EnvChoices : e # env /\ env' = e
    /\ UNCHANGED <<cpc, maxRetries, attempt, lastError, log, delays, callValue,
                   callError, sent, tool, params, hpc, hresult, step, kept, req,
                   custody, invocations, probe, verdict, qlog, built, agentId,
                   calls>>

IdentityResponses ==
    {Http(200, Parsed(Obj([updated |-> Num(3), message |-> Str("Ratings saved")])),
          NoHeader),
     Http(400, Parsed(BackendErrorBody), NoHeader),
     Http(503, Unparsed, NoHeader),
     Fault("fetch failed")}

IdentityAttempt == AttemptOn(IdentityResponses)

IdentityNext ==
    \/ SetEnv
    \/ DirectCall
    \/ IdentityAttempt
    \/ Wake
    \/ SettleDirect
    \/ InvokeDelete
    \/ DeleteReadReply
    \/ DeleteReply

IdentitySpec == IdentityInit /\ [][IdentityNext]_vars

(***************************************************************************)
(* api-client.ts: the URL of query().  Strings are sequences of characters; *)
(* the filters are the entries of params, in order                          *)
(***************************************************************************)
MaxValueLen == 2   \* characters in a filter value: 0..MaxValueLen

FormUnreserved ==
    {"a", "c", "d", "e", "i", "l", "q", "s", "t", "3", "B", ".", "-", "_", "*"}

FormEncodeChar_raw(c) == <<c>>

\* the application/x-www-form-urlencoded serializer of URLSearchParams, for
\* one character: letters, digits and * - . _ as they are, a space as '+',
\* anything else as its percent-encoded byte
FormEncodeChar(c) ==
    CASE c \in FormUnreserved -> <<c>>
      [] c = " " -> <<"+">>
      [] c = ";" -> <<"%", "3", "B">>
      [] c = "&" -> <<"%", "2", "6">>
      [] c = "=" -> <<"%", "3", "D">>
      [] c = "%" -> <<"%", "2", "5">>
      [] c = "+" -> <<"%", "2", "B">>
      [] c = "," -> <<"%", "2", "C">>

RECURSIVE FormEncode(_)
FormEncode(str) ==
    IF str = <<>> THEN <<>>
    ELSE FormEncodeChar(Head(str)) \o FormEncode(Tail(str))

RECURSIVE QueryString(_)
\* url.searchParams.set(k, v) for each entry, then the query of url.toString()
QueryString(entries) ==
    IF entries = <<>> THEN <<>>
    ELSE LET term == FormEncode(entries[1][1]) \o <<"=">>
                     \o FormEncode(entries[1][2])
         IN  IF Len(entries) = 1 THEN term
             ELSE term \o <<"&">> \o QueryString(Tail(entries))

FilterChars == {"a", ".", ";", "&", "=", "%", " ", "+", ",", "3", "B"}

RECURSIVE StringsUpTo(_, _)
StringsUpTo(chars, n) ==
    IF n = 0 THEN {<<>>}
    ELSE StringsUpTo(chars, n - 1)
         \cup {Append(w, c) : w \in StringsUpTo(chars, n - 1), c \in chars}

\* `eq.${value}` of a handler
EqOf(value) == <<"e", "q", ".">> \o value

\* params of query(): an id filter on its own, with a select, and the
\* injection of the source's security note
FilterInputs ==
    {<< <<<<"i", "d">>, EqOf(v)>> >> : v \in StringsUpTo(FilterChars, MaxValueLen)}
    \cup {<< <<<<"i", "d">>, EqOf(v)>>, <<<<"s", "e", "l", "e", "c", "t">>, <<"i", "d", ",", "a">>>> >> :
            v \in StringsUpTo(FilterChars, MaxValueLen)}
    \cup {<<>>,
          << <<<<"i", "d">>,
               EqOf(<<"a", ";", "i", "d", "=", "e", "q", ".", "a">>)>> >>}

UrlInit ==
    /\ MainInit
    /\ NoAgent
    /\ probe \in FilterInputs
    /\ verdict = Undefined

\* query() up to its fetch: the URL it asks for
BuildUrl ==
    /\ verdict = Undefined
    /\ verdict' = [search |-> QueryString(probe)]
    /\ UNCHANGED <<cpc, maxRetries, attempt, lastError, log, delays, callValue,
                   callError, sent, tool, params, hpc, hresult, step, kept, req,
                   custody, invocations, probe, qlog, built, agentId, env, calls>>

UrlNext == BuildUrl

UrlSpec == UrlInit /\ [][UrlNext]_vars

(***************************************************************************)
(* musicmation-generate.ts: musicmation_bulk_poll_status, on its own       *)
(***************************************************************************)
MaxTrackIds == 2   \* identifiers in track_ids: 0..MaxTrackIds

PollIds == <<"t1", "t2">>

\* the server returns uppercase statuses; a row may carry none
TrackStatuses == {Str("COMPLETE"), Str("GENERATING"), Str("QUEUED"), Null}

Track(id, status) ==
    Obj([id |-> Str(id), title |-> Str("Song " \o id), status |-> status,
         audio_url |-> Str("https://cdn/" \o id \o ".mp3")])

Variation(id, parent) ==
    Obj([id |-> Str(id), title |-> Str("Take " \o id), parent_id |-> Str(parent),
         audio_url |-> Str("https://cdn/" \o id \o ".mp3")])

\* the rows of a backend in which the track named PollIds[i] has the status
\* has[i], or does not exist where has[i] is undefined
TracksOf(has) ==
    SelectSeq([i \in DOMAIN PollIds |-> Track(PollIds[i], has[i])],
              LAMBDA t : Get(t, "status") # Undefined)

PollResponses ==
    {Http(200, Parsed(Arr(TracksOf(has))), NoHeader) :
        has \in [DOMAIN PollIds -> TrackStatuses \cup {Undefined}]}
    \cup {Http(200, Parsed(Null), NoHeader),
          Http(500, Parsed(BackendErrorBody), NoHeader),
          Fault("fetch failed")}

VariationResponses ==
    {Http(200, Parsed(Arr(<<>>)), NoHeader),
     Http(200, Parsed(Arr(<<Variation("v1", "t1"), Variation("v2", "t1")>>)),
          NoHeader),
     Http(200, Parsed(Null), NoHeader),
     Http(503, Unparsed, NoHeader)}

PollPayloads ==
    {[track_ids |-> Arr([i \in DOMAIN l |-> Str(l[i])])] :
        l \in ListsOver(Range(PollIds), MaxTrackIds)}

RECURSIVE Join(_)
\* ids.join(',')
Join(ids) ==
    IF ids = <<>> THEN ""
    ELSE IF Len(ids) = 1 THEN ids[1].v
    ELSE ids[1].v \o "," \o Join(Tail(ids))

\* `in.(${ids.join(',')})`
InFilter(ids) == "in.(" \o Join(ids) \o ")"

\* String.prototype.toLowerCase, on the statuses of the model
toLowerCase(s) ==
    CASE s = "COMPLETE" -> "complete"
      [] s = "GENERATING" -> "generating"
      [] s = "QUEUED" -> "queued"
      [] OTHER -> s

\* (rows || [])
RowsOf(rows) == OrElse(rows, Arr(<<>>)).v

\* new Map(rows.map(t => [t.id, t])).get(id): the last row with that id
MapGet(rows, id) ==
    LET at == {i \in DOMAIN rows : Get(rows[i], "id") = id}
    IN  IF at = {} THEN Undefined
        ELSE rows[CHOOSE i \in at : \A j \in at : j <= i]

\* (tracks || []).filter(t => t.status === 'COMPLETE').map(t => t.id)
CompletedIds(tracks) ==
    LET done == SelectSeq(RowsOf(tracks),
                          LAMBDA t : Get(t, "status") = Str("COMPLETE"))
    IN  [i \in DOMAIN done |-> Get(done[i], "id")]

\* variationMap.get(id) || []
VariationsOf(variations, id) ==
    SelectSeq(variations, LAMBDA v : Get(v, "parent_id") = id)

PollStatus_raw(track) == OrElse(Get(track, "status"), Str("unknown")).v

\* (track.status || 'unknown').toLowerCase()
PollStatus(track) ==
    toLowerCase(OrElse(Get(track, "status"), Str("unknown")).v)

ListenUrl(id) == Str("https://content.7cycle.life/details/" \o id.v)

\* the callback of trackIds.map: the entry of one identifier
PollEntry(id, tracks, variations) ==
    LET track == MapGet(RowsOf(tracks), id)
    IN  IF ~Truthy(track)
        THEN Obj([track_id |-> id, status |-> Str("not_found")])
        ELSE LET status == PollStatus(track)
                 mine == VariationsOf(variations, id)
                 head == [track_id |-> id, title |-> Get(track, "title"),
                          status |-> Str(status)]
             IN  IF status = "complete"
                 THEN Obj(Merge(head,
                        [audio_url |-> Get(track, "audio_url"),
                         image_url |-> Get(track, "image_url"),
                         duration_sec |-> Get(track, "duration_sec"),
                         variations |-> Arr([i \in DOMAIN mine |->
                             Obj([id |-> Get(mine[i], "id"),
                                  title |-> Get(mine[i], "title"),
                                  audio_url |-> Get(mine[i], "audio_url"),
                                  image_url |-> Get(mine[i], "image_url"),
                                  listen_url |-> ListenUrl(Get(mine[i], "id"))])]),
                         listen_url |-> ListenUrl(id)]))
                 ELSE Obj(head)

\* results.filter(r => r.status === s).length
CountStatus(results, s) ==
    Cardinality({i \in DOMAIN results : Get(results[i], "status") = Str(s)})

\* the summary the handler returns
PollResult(trackIds, tracks, variations) ==
    LET results == [i \in DOMAIN trackIds |->
                        PollEntry(trackIds[i], tracks, variations)]
        completed == CountStatus(results, "complete")
        generating == CountStatus(results, "generating")
        queued == CountStatus(results, "queued")
    IN  Returned(jsonResult(Obj(
          [summary |-> Obj([total |-> Num(Len(trackIds)),
                            completed |-> Num(completed),
                            generating |-> Num(generating),
                            queued |-> Num(queued),
                            all_done |-> Bool(completed = Len(trackIds))]),
           tracks |-> Arr(results),
           message |-> Str(IF completed = Len(trackIds)
                           THEN "All " \o ToString(completed) \o " tracks complete!"
                           ELSE ToString(completed) \o "/" \o ToString(Len(trackIds))
                                \o " done, " \o ToString(generating)
                                \o " generating, " \o ToString(queued)
                                \o " queued...")])))

EmptyPollResult ==
    Returned(jsonResult(Obj([error |-> Str("track_ids array is empty")])))

\* execute() up to the await of the first query, or to the early return
InvokePoll ==
    /\ CanInvoke
    /\ \E p \in PollPayloads :
          /\ tool' = "musicmation_bulk_poll_status"
          /\ params' = p
          /\ sent' = <<>>
          /\ qlog' = <<>>
          /\ kept' = EmptyRec
          /\ invocations' = invocations + 1
          /\ IF p.track_ids.v = <<>>
             THEN /\ FinishWith(EmptyPollResult)
                  /\ UNCHANGED <<step, req>>
             ELSE /\ hpc' = "await"
                  /\ hresult' = NoResult
                  /\ custody' = custody
                  /\ step' = "tracks"
                  /\ req' = QueryReq("sunoma_items",
                        [id |-> InFilter(p.track_ids.v),
                         select |-> "id,title,status,audio_url,image_url,duration_sec,generation_source"],
                        "GET", Undefined, randomUUID(invocations + 1, 1))
    /\ NoCall
    /\ UNCHANGED pureVars

\* after the first query: the summary, or the query for the variations
PollTracksReply ==
    /\ hpc = "await" /\ tool = "musicmation_bulk_poll_status" /\ step = "tracks"
    /\ \E r \in PollResponses :
          /\ Asked(r)
          /\ LET outcome == QueryOutcome(r)
             IN  IF outcome.kind = "throw"
                 THEN /\ FinishWith(Thrown(wrapError(outcome.error)))
                      /\ UNCHANGED <<step, kept, req>>
                 ELSE IF CompletedIds(outcome.value) = <<>>
                 THEN /\ FinishWith(PollResult(params.track_ids.v,
                                               outcome.value, <<>>))
                      /\ UNCHANGED <<step, kept, req>>
                 ELSE /\ step' = "variations"
                      /\ kept' = [tracks |-> outcome.value]
                      /\ req' = QueryReq("sunoma_items",
                            [parent_id |-> InFilter(CompletedIds(outcome.value)),
                             item_type |-> "eq.variation",
                             select |-> "id,title,status,audio_url,image_url,duration_sec,variation_index,parent_id",
                             order |-> "variation_index.asc"],
                            "GET", Undefined, randomUUID(invocations, 2))
                      /\ UNCHANGED <<hpc, hresult, custody>>
    /\ UNCHANGED callVars
    /\ QueryFrame

\* after the query for the variations: the summary
PollVariationsReply ==
    /\ hpc = "await" /\ tool = "musicmation_bulk_poll_status"
    /\ step = "variations"
    /\ \E r \in VariationResponses :
          /\ Asked(r)
          /\ LET outcome == QueryOutcome(r)
             IN  FinishWith(IF outcome.kind = "throw"
                            THEN Thrown(wrapError(outcome.error))
                            ELSE PollResult(params.track_ids.v, kept["tracks"],
                                            RowsOf(outcome.value)))
    /\ UNCHANGED <<callVars, step, kept, req>>
    /\ QueryFrame

PollNext ==
    \/ InvokePoll
    \/ PollTracksReply
    \/ PollVariationsReply

PollSpec == Init /\ [][PollNext]_vars

(***************************************************************************)
(* index.ts, config.ts, _registry.ts: registration of the plugin.  The     *)
(* host's pluginConfig and the process environment are drawn in PluginInit; *)
(* the verdict is what the host holds once register() is over               *)
(***************************************************************************)
MaxModules == 2   \* entries of enabledModules: 0..MaxModules

VALID_MODULES == {"musicmation", "storymation", "skillmation", "contentmation"}

\* Object.entries(MODULE_TOOLS): the keys, in order
ModuleOrder == <<"musicmation", "storymation", "skillmation", "contentmation">>

\* the names of the tools each registrar hands to api.registerTool
RegistrarTools(registrar) ==
    CASE registrar = "registerPreflightTool" -> <<"cynaps3_preflight">>
      [] registrar = "registerMusicmationGenerateTool" ->
            <<"musicmation_generate", "musicmation_bulk_generate",
              "musicmation_bulk_poll_status">>
      [] registrar = "registerMusicmationLibraryTools" ->
            <<"musicmation_search_tracks", "musicmation_browse_styles",
              "musicmation_library_stats", "musicmation_recommend",
              "musicmation_get_personas", "musicmation_get_top_rated",
              "musicmation_browse_influence_groups",
              "musicmation_get_influence_group_detail",
              "musicmation_poll_status", "musicmation_generate_lyrics">>
      [] registrar = "registerMusicmationWriteTools" ->
            <<"musicmation_rate_tracks", "musicmation_create_album",
              "musicmation_set_dramaturgy", "musicmation_bulk_rename">>
      [] registrar = "registerMusicmationProjectTools" ->
            <<"musicmation_list_projects", "musicmation_create_project",
              "musicmation_update_project", "musicmation_get_project_context",
              "musicmation_set_project_context", "musicmation_delete_project">>
      [] registrar = "registerMusicmationContentTools" ->
            <<"musicmation_create_item", "musicmation_update_item">>

MODULE_TOOLS(module) ==
    IF module = "musicmation"
    THEN <<"registerMusicmationGenerateTool", "registerMusicmationLibraryTools",
           "registerMusicmationWriteTools", "registerMusicmationProjectTools",
           "registerMusicmationContentTools">>
    ELSE <<>>

RECURSIVE Flatten(_)
Flatten(lists) ==
    IF lists = <<>> THEN <<>> ELSE Head(lists) \o Flatten(Tail(lists))

IsEnabled_always(enabledModules, module) == TRUE

\* new Set(config.enabledModules).has(module)
IsEnabled(enabledModules, module) == module \in Range(enabledModules)

\* registerAllTools(api, config): the tools the host holds afterwards
registerAllTools(enabledModules) ==
    RegistrarTools("registerPreflightTool")
    \o Flatten([i \in DOMAIN ModuleOrder |->
          IF IsEnabled(enabledModules, ModuleOrder[i])
          THEN Flatten([j \in DOMAIN MODULE_TOOLS(ModuleOrder[i]) |->
                          RegistrarTools(MODULE_TOOLS(ModuleOrder[i])[j])])
          ELSE <<>>])

\* getString(obj, key)
getString(obj, key) ==
    IF ~Truthy(obj) THEN Undefined
    ELSE LET val == Get(obj, key)
         IN  IF val.t = "string" /\ val.v # "" THEN val ELSE Undefined

IsUrl_any(s) == TRUE

\* new URL(s) does not throw, on the strings of the model
IsUrl(s) == s \in {"https://x.supabase.co", "https://env.supabase.co"}

\* rawModules.filter(m => typeof m === 'string' && VALID_MODULES.has(m))
ValidModules(rawModules) ==
    LET valid == SelectSeq(rawModules,
                           LAMBDA m : m.t = "string" /\ m.v \in VALID_MODULES)
    IN  [i \in DOMAIN valid |-> valid[i].v]

\* parseConfig(pluginConfig), in a process with environment e
parseConfig(pluginConfig, e) ==
    LET supabaseUrl == OrElse(getString(pluginConfig, "supabaseUrl"),
                              e.CYNAPS3_SUPABASE_URL)
        supabaseAnonKey == OrElse(getString(pluginConfig, "supabaseAnonKey"),
                                  e.CYNAPS3_ANON_KEY)
        serviceRoleKey == OrElse(getString(pluginConfig, "serviceRoleKey"),
                                 e.CYNAPS3_SERVICE_ROLE_KEY)
        userId == OrElse(getString(pluginConfig, "userId"), e.CYNAPS3_USER_ID)
        rawModules == IF Truthy(pluginConfig)
                         /\ Get(pluginConfig, "enabledModules").t = "array"
                      THEN Get(pluginConfig, "enabledModules").v
                      ELSE <<Str("musicmation")>>
        enabledModules == ValidModules(rawModules)
    IN  IF ~Truthy(supabaseUrl)
        THEN Thrown(NativeError("Missing required config: supabaseUrl"))
        ELSE IF ~Truthy(supabaseAnonKey)
        THEN Thrown(NativeError("Missing required config: supabaseAnonKey"))
        ELSE IF ~Truthy(serviceRoleKey)
        THEN Thrown(NativeError("Missing required config: serviceRoleKey"))
        ELSE IF ~Truthy(userId)
        THEN Thrown(NativeError("Missing required config: userId"))
        ELSE IF ~IsUrl(supabaseUrl.v)
        THEN Thrown(NativeError("Invalid supabaseUrl: " \o supabaseUrl.v))
        ELSE Returned(
               [supabaseUrl |-> supabaseUrl,
                supabaseAnonKey |-> supabaseAnonKey,
                serviceRoleKey |-> serviceRoleKey,
                userId |-> userId,
                enabledModules |-> IF enabledModules = <<>>
                                   THEN <<"musicmation">> ELSE enabledModules,
                agentId |-> getString(pluginConfig, "agentId")])

\* a host on which nothing is registered
NoHost == [threw |-> FALSE, tools |-> <<>>, commands |-> <<>>,
           services |-> <<>>, errors |-> <<>>]

\* register(api): what the host holds and what console.error was given
register(pluginConfig, e) ==
    LET parsed == parseConfig(pluginConfig, e)
    IN  IF parsed.kind = "throw"
        THEN [NoHost EXCEPT !.errors =
                <<"[cynaps3] Config error: " \o parsed.error.message,
                  "[cynaps3] Plugin disabled due to config error. Check plugins.entries.cynaps3 in openclaw.json.">>]
        ELSE [NoHost EXCEPT
                !.tools = registerAllTools(parsed.value.enabledModules),
                !.commands = <<"cynaps3-status">>]

RawModuleChoices ==
    {Undefined} \cup
    {Arr(l) : l \in ListsOver({Str("musicmation"), Str("storymation"),
                               Str("invalid-module"), Num(1)}, MaxModules)}

PluginConfigs ==
    {Undefined} \cup
    {Obj([supabaseUrl |-> u, supabaseAnonKey |-> k,
          serviceRoleKey |-> Str("service-role-key"), userId |-> i,
          enabledModules |-> m]) :
        u \in {Undefined, Str(""), Str("not-a-url"), Str("https://x.supabase.co")},
        k \in {Undefined, Str("anon-key")},
        i \in {Num(7), Str("user-1")},
        m \in RawModuleChoices}

ConfigEnvChoices ==
    {[CYNAPS3_SUPABASE_URL |-> u, CYNAPS3_ANON_KEY |-> k,
      CYNAPS3_SERVICE_ROLE_KEY |-> Undefined, CYNAPS3_USER_ID |-> Undefined] :
        u \in {Undefined, Str("https://env.supabase.co")},
        k \in {Undefined, Str("env-anon-key")}}

PluginInputs ==
    {[fn |-> "register", pluginConfig |-> c, env |-> e] :
        c \in PluginConfigs, e \in ConfigEnvChoices}
    \cup {[fn |-> "registerAllTools", enabledModules |-> l] :
            l \in ListsOver(VALID_MODULES, MaxModules)}

PluginInit ==
    /\ MainInit
    /\ NoAgent
    /\ probe \in PluginInputs
    /\ verdict = Undefined

PluginFrame ==
    UNCHANGED <<cpc, maxRetries, attempt, lastError, log, delays, callValue,
                callError, sent, tool, params, hpc, hresult, step, kept, req,
                custody, invocations, probe, qlog, built, agentId, env, calls>>

\* the host loads the plugin
Register ==
    /\ verdict = Undefined
    /\ probe.fn = "register"
    /\ verdict' = register(probe.pluginConfig, probe.env)
    /\ PluginFrame

\* registerAllTools called with a config of its own, as the registry tests do
RegisterAllTools ==
    /\ verdict = Undefined
    /\ probe.fn = "registerAllTools"
    /\ verdict' = [NoHost EXCEPT !.tools = registerAllTools(probe.enabledModules)]
    /\ PluginFrame

PluginNext ==
    \/ Register
    \/ RegisterAllTools

PluginSpec == PluginInit /\ [][PluginNext]_vars

(***************************************************************************)
(* api-client.ts: several call()s on one client.  Each call() has locals   *)
(* of its own; the calls take their steps in any order                     *)
(***************************************************************************)
MaxCalls == 2   \* call()s issued on the client

ConcResponses ==
    {Http(200, Parsed(Obj([updated |-> Num(3), message |-> Str("Ratings saved")])),
          NoHeader),
     Http(400, Parsed(BackendErrorBody), NoHeader),
     Http(503, Unparsed, NoHeader)}

ConcInit ==
    /\ MainInit
    /\ probe = Undefined
    /\ verdict = Undefined
    /\ built \in {[config |-> Undefined, ctx |-> Undefined],
                  [config |-> Str("config-agent"),
                   ctx |-> Obj([agentId |-> Str("context-agent")])]}
    /\ agentId = fromContext(built.config, built.ctx)
    /\ env = [OPENCLAW_AGENT_ID |-> Undefined, CYNAPS3_AGENT_ID |-> Undefined]

Own_shared(cs, i) ==
    [cs[i] EXCEPT !.attempt = cs[1].attempt, !.lastError = cs[1].lastError]

\* the variables the i-th call() reads and writes: headers, maxRetries,
\* lastError and attempt are declared inside call()
Own(cs, i) == cs[i]

ConcFrame ==
    UNCHANGED <<cpc, maxRetries, attempt, lastError, log, delays, callValue,
                callError, sent, tool, params, hpc, hresult, step, kept, req,
                custody, invocations, probe, verdict, qlog, built, agentId,
                env>>

\* a caller issues call() while the earlier ones are suspended or settled
Issue ==
    /\ Len(calls) < MaxCalls
    /\ \E budget \in 0..MaxRetriesBound :
          calls' = Append(calls,
              Merge(Started(budget),
                    [req |-> [fn |-> "suno-proxy", method |-> "POST",
                              body |-> Obj([method |-> Str("generateLyrics")]),
                              query |-> EmptyRec,
                              headers |->
                                  buildHeaders(randomUUID(Len(calls) + 1, 1))],
                     sent |-> <<>>]))
    /\ ConcFrame

\* the fetch of one of the suspended calls is answered
ConcAttempt ==
    /\ \E i \in DOMAIN calls : \E r \in ConcResponses :
          /\ calls[i].cpc = "fetch"
          /\ LET f == Own(calls, i)
             IN  calls' = [calls EXCEPT ![i] =
                    [Received(f, r) EXCEPT
                        !.sent = Append(@, Outbound(f.req, f.attempt))]]
    /\ ConcFrame

\* the sleep of one of the suspended calls is over
ConcWake ==
    /\ \E i \in DOMAIN calls :
          /\ calls[i].cpc = "sleep"
          /\ calls' = [calls EXCEPT ![i] = NextIteration(Own(calls, i))]
    /\ ConcFrame

ConcNext ==
    \/ Issue
    \/ ConcAttempt
    \/ ConcWake

ConcSpec == ConcInit /\ [][ConcNext]_vars

(***************************************************************************)
(* api-client.ts: call() with the scheduling the runtime gives it.  Every   *)
(* fetch settles (AbortSignal.timeout rejects it at the latest) and every   *)
(* sleep() timer fires                                                      *)
(***************************************************************************)
LiveResponses ==
    IdentityResponses \cup {Http(200, Unparsed, NoHeader)}

LiveAttempt == AttemptOn(LiveResponses)

LiveNext ==
    \/ DirectCall
    \/ LiveAttempt
    \/ Wake
    \/ SettleDirect

LiveSpec ==
    /\ Init
    /\ [][LiveNext]_vars
    /\ WF_vars(LiveAttempt)
    /\ WF_vars(Wake)

(***************************************************************************)
(* Properties                                                              *)
(***************************************************************************)
Is4xx(r) == r.kind = "http" /\ r.status >= 400 /\ r.status <= 499
Is5xx(r) == r.kind = "http" /\ r.status >= 500
Is2xx(r) == r.kind = "http" /\ r.status >= 200 /\ r.status <= 299
IsFault(r) == r.kind = "fault"
All5xx(s) == \A i \in 1..Len(s) : Is5xx(s[i])
Front(s) == SubSeq(s, 1, Len(s) - 1)
InCall == cpc # "none"

C2_SucceedsAfterServerErrors ==
    /\ (InCall /\ All5xx(log) /\ Len(log) <= maxRetries
            => cpc \in {"fetch", "sleep"})
    /\ (Len(log) >= 1 /\ All5xx(Front(log)) /\ Is2xx(Last(log))
        /\ Last(log).body.parses
            => /\ cpc = "ok"
               /\ callValue = Last(log).body.value
               /\ attempt = Len(log) - 1
               /\ Len(log) <= 1 + maxRetries
               /\ (tool \in RpcTools \cup {"direct"} => Len(sent) = Len(log)))

C2_Witness ==
    /\ cpc = "ok" /\ maxRetries = MAX_RETRIES /\ Len(log) = 3 /\ Len(sent) = 3
    /\ Is5xx(log[1]) /\ log[1].status = 500
    /\ Is5xx(log[2]) /\ log[2].status = 500
    /\ log[3].status = 200
    /\ callValue = Obj([updated |-> Num(3), message |-> Str("Ratings saved")])

ExpectedRetryAfter(h) ==
    CASE h = NoHeader -> 5
      [] h = Header(<<"3">>) -> 3
      [] h = Header(<<"1", "2", "0">>) -> 60
      [] OTHER -> 5

\* C4: a 429 received while attempts remain is followed by a wait of the
\* Retry-After interval and a retry; a call fails on a 429 only once the
\* budget is used up.
C4_RateLimitIsRetried ==
    (Len(log) >= 1 /\ Last(log).kind = "http" /\ Last(log).status = 429
     /\ Len(log) <= maxRetries)
        => /\ cpc \in {"sleep", "fetch"}
           /\ Len(delays) = Len(log)
           /\ Last(delays) = 1000 * ExpectedRetryAfter(Last(log).retryAfter)

\* C5: a transport fault (a timeout included) is retried like a 5xx: while
\* attempts remain the call waits base * 2^attempt and goes on; on the last
\* attempt the call fails with a typed error of status 0 and code
\* NETWORK_ERROR.
C5_TransportFaultRetriedLikeServerError ==
    (Len(log) >= 1 /\ (IsFault(Last(log)) \/ Is5xx(Last(log)))) =>
        IF Len(log) <= maxRetries
        THEN /\ cpc \in {"sleep", "fetch"}
             /\ Len(delays) = Len(log)
             /\ Last(delays) = 1000 * (2 ^ (Len(log) - 1))
        ELSE /\ cpc = "fail"
             /\ Len(log) = 1 + maxRetries
             /\ IsFault(Last(log)) =>
                    /\ callError.name = "CynapsApiError"
                    /\ callError.status = 0
                    /\ callError.code = "NETWORK_ERROR"

C5_Witness ==
    /\ cpc = "fail" /\ maxRetries = MAX_RETRIES /\ Len(log) = 3
    /\ \A i \in 1..3 : IsFault(log[i])
    /\ log[3].message = "The operation was aborted due to timeout"
    /\ delays = <<1000, 2000>>
    /\ callError.status = 0

\* C6: a 2xx response with an empty body makes call() return (an empty
\* result); it is not handled as a fault.
C6_EmptyBodyIsSuccess ==
    (Len(log) >= 1 /\ Is2xx(Last(log)) /\ Last(log).cl0) => cpc = "ok"

\* the claim's notion of a confirmation envelope
IsEnvelope(v) ==
    /\ v.t = "object"
    /\ "confirmation_required" \in DOMAIN v.v
    /\ v.v["confirmation_required"] = Bool(TRUE)

\* C7: a write tool that returns hands back the backend result: an envelope
\* with every field as the backend sent it plus an added instruction field,
\* anything else as it is.
C7_EnvelopeRelayedWithInstruction ==
    (hpc = "returned" /\ tool \in WriteTools) =>
        LET result == Last(log).body.value
            out == hresult.value.details
        IN  /\ hresult.value.content[1].text = [json |-> out]
            /\ IF IsEnvelope(result)
               THEN /\ out.t = "object"
                    /\ "instruction" \notin DOMAIN result.v
                    /\ DOMAIN out.v = DOMAIN result.v \cup {"instruction"}
                    /\ \A k \in DOMAIN result.v : out.v[k] = result.v[k]
                    /\ out.v["instruction"].t = "string"
               ELSE out = result

C7_Witness ==
    /\ hpc = "returned" /\ tool = "musicmation_create_album"
    /\ Last(log).body.value = Envelope("tok-abc")
    /\ Get(hresult.value.details, "confirmation_token") = Str("tok-abc")
    /\ "instruction" \in DOMAIN hresult.value.details.v

\* the token the current invocation was given
SuppliedToken ==
    IF "confirmation_token" \in DOMAIN params
    THEN params["confirmation_token"] ELSE Undefined

NoStrayToken ==
    tool \in WriteTools =>
        \A i \in 1..Len(sent) :
            Get(Get(sent[i].body, "params"), "confirmation_token") = SuppliedToken

QuietOnceSettled ==
    hpc \in {"returned", "threw"} =>
        (sent' = sent \/ invocations' = invocations + 1)

\* C9: every request of a write tool carries the confirmation_token of the
\* current invocation's params and no other (none when none was supplied,
\* also when the agent holds one from an earlier envelope), and a handler
\* that has returned or thrown sends nothing until the next invocation.
C9_TokenOnlyFromCaller == []NoStrayToken /\ [][QuietOnceSettled]_vars

C9_Witness ==
    /\ invocations = 2 /\ tool \in WriteTools /\ custody = "tok-abc"
    /\ Len(sent) >= 1
    /\ SuppliedToken = Undefined

OtherMutatingTools ==
    {"musicmation_set_project_context", "musicmation_create_project",
     "musicmation_update_project", "musicmation_delete_project",
     "musicmation_create_item", "musicmation_update_item",
     "musicmation_generate"}

MutatingTools == WriteTools \cup OtherMutatingTools

\* the response the handler's last request received
LastReply ==
    IF tool \in RpcTools \/ (tool = "musicmation_generate" /\ step = "enqueue")
    THEN Last(log) ELSE Last(qlog)

AnsweredWithEnvelope ==
    /\ Len(sent) >= 1
    /\ Is2xx(LastReply) /\ LastReply.body.parses /\ ~LastReply.cl0
    /\ LastReply.status # 204
    /\ IsEnvelope(LastReply.body.value)

\* the confirmation_token a request carries, in its body or in its RPC params
CarriedToken(request) ==
    IF Get(request.body, "confirmation_token") # Undefined
    THEN Get(request.body, "confirmation_token")
    ELSE Get(Get(request.body, "params"), "confirmation_token")

RelaysAnnotated ==
    LET out == hresult.value.details
    IN  /\ Get(out, "instruction").t = "string"
        /\ \A k \in DOMAIN LastReply.body.value.v :
              Get(out, k) = LastReply.body.value.v[k]

C10_GuardIsExact ==
    verdict # Undefined =>
        verdict =
            (CASE probe.t \in {"undefined", "null", "string", "number",
                               "boolean", "array"} -> Bool(FALSE)
               [] probe.t = "object" ->
                    IF "confirmation_required" \notin DOMAIN probe.v
                    THEN Bool(FALSE)
                    ELSE IF probe.v["confirmation_required"].t = "boolean"
                            /\ probe.v["confirmation_required"].v = "true"
                    THEN Bool(TRUE) ELSE Bool(FALSE))

C10_Witness ==
    /\ verdict = Bool(FALSE)
    /\ probe = Obj([confirmation_required |-> Str("true")])

\* the input's keys that hold a defined value
DefinedKeys(obj) == {k \in DOMAIN obj : obj[k] # Undefined}

\* the restriction of the input to the allowed keys with a defined value
IsRestriction(out, obj, keys) ==
    /\ DOMAIN out = Range(keys) \cap DefinedKeys(obj)
    /\ \A k \in DOMAIN out : out[k] = obj[k]

\* C11 as stated: for every input record and every allow-list, pick returns
\* the restriction of the input to the allowed keys whose value is defined;
\* null is kept, undefined is dropped, no other key appears.
C11_PickIsRestriction ==
    verdict # Undefined => IsRestriction(verdict.v, probe.obj, probe.keys)

\* C11 as amended: the same for every allow-list that names no member
\* inherited from Object.prototype; for a name such as 'constructor' that
\* the input does not hold itself, pick copies the inherited member.
C11_PickIsRestrictionOfOwnKeys ==
    (verdict # Undefined /\ Range(probe.keys) \cap ObjectPrototype = {})
        => IsRestriction(verdict.v, probe.obj, probe.keys)

C11_Witness ==
    /\ probe.obj = [mood |-> Null, genre |-> Undefined, evil |-> Str("calm")]
    /\ probe.keys = <<"mood", "genre">>
    /\ verdict = Obj([mood |-> Null])

\* C12: whatever leaves execute() of a tool as a failure is a typed error
\* (CynapsApiError), whichever step of whichever tool failed and whatever
\* the origin of the failure.
C12_EveryFailureIsTyped ==
    hpc = "threw" => hresult.error.name = "CynapsApiError"

\* the operation whose result verdict holds, "none" before any
Applied == IF verdict = Undefined THEN "none" ELSE verdict.op

\* C13: wrapError hands a typed error back as the same object (same fields,
\* same allocation), so the error a handler rethrows is the one the client
\* threw; wrapping the result of wrapError again changes nothing, whatever
\* was thrown first.
C13_WrapErrorKeepsTypedErrors ==
    /\ (Applied = "wrapError" /\ probe.name = "CynapsApiError")
            => verdict.out = probe
    /\ Applied = "wrapError" => verdict.out.name = "CynapsApiError"
    /\ Applied = "wrapError twice" => verdict.out = verdict.once

C13_Witness ==
    /\ Applied = "wrapError twice"
    /\ probe \in ClientErrors /\ probe.status = 429
    /\ probe.ref = "api-client.ts:86"
    /\ verdict.out = probe

AuthSentence == "Having trouble connecting - try again in a moment."
ServerSentence == "Something went wrong on our end. Please try again."

\* C14: userMessage of a typed error is a fixed sentence for 401 and 403 and
\* another fixed sentence for every status from 500 up, whatever the raw
\* message (two errors of such a status never differ in userMessage); for
\* 429 and every other status in 400..499 it is the raw message.
C14_UserMessageHidesAuthAndServerDetail ==
    Applied = "getters" =>
        LET st == probe.status
        IN  /\ st \in {401, 403} => verdict.userMessage = AuthSentence
            /\ st >= 500 => verdict.userMessage = ServerSentence
            /\ (st \in {401, 403} \/ st >= 500) =>
                  \A e \in TypedErrors :
                      e.status = st => userMessage(e) = verdict.userMessage
            /\ (st >= 400 /\ st <= 499 /\ st \notin {401, 403}) =>
                  verdict.userMessage = probe.message

C14_Witness ==
    /\ Applied = "getters"
    /\ probe.status = 500
    /\ probe.message = "relation sunoma_items: permission denied"
    /\ verdict.userMessage = ServerSentence

\* C15: the predicates follow from the status alone: 400..499 is a client
\* error and no server error, 500 and up is a server error and no client
\* error, an auth error is exactly 401 or 403, rate limited is exactly 429.
C15_PredicatesFollowStatus ==
    Applied = "getters" =>
        LET st == probe.status
        IN  /\ (st >= 400 /\ st <= 499)
                  => (verdict.isClientError /\ ~verdict.isServerError)
            /\ st >= 500 => (verdict.isServerError /\ ~verdict.isClientError)
            /\ verdict.isAuthError <=> st \in {401, 403}
            /\ verdict.isRateLimited <=> st = 429

C15_Witness ==
    /\ Applied = "getters"
    /\ probe.status = 429
    /\ verdict.isClientError /\ verdict.isRateLimited
    /\ ~verdict.isServerError /\ ~verdict.isAuthError

\* the X-Agent-Id header of a request, undefined when it has none
AgentHeader(request) ==
    IF "X-Agent-Id" \in DOMAIN request.headers
    THEN Str(request.headers["X-Agent-Id"]) ELSE Undefined

NonEmpty(v) == v.t = "string" /\ v.v # ""

\* the first defined, non-empty value of the chain, undefined when none is
FirstNonEmpty(chain) ==
    IF \E i \in 1..Len(chain) : NonEmpty(chain[i])
    THEN chain[CHOOSE i \in 1..Len(chain) :
                  NonEmpty(chain[i]) /\ \A j \in 1..(i - 1) : ~NonEmpty(chain[j])]
    ELSE Undefined

\* the identity the claim expects for a call made now
ExpectedAgent ==
    FirstNonEmpty(<<Get(built.ctx, "agentId"), built.config,
                    env.OPENCLAW_AGENT_ID, env.CYNAPS3_AGENT_ID>>)

PreparesRequest == req' # req

\* C16: a step that prepares an outbound request (call() or query() up to
\* its fetch) gives it the X-Agent-Id of the first non-empty value of: the
\* context agentId given to fromContext, the config agentId, the
\* environment's OPENCLAW_AGENT_ID, then CYNAPS3_AGENT_ID, with the
\* environment as it is at that step; no header when there is none.
C16_AgentHeaderResolvedAtCall ==
    [][PreparesRequest => AgentHeader(req') = ExpectedAgent]_vars

C16_Witness ==
    /\ tool = "musicmation_delete_project" /\ Len(sent) = 2
    /\ built = [config |-> Str(""), ctx |-> Obj(EmptyRec)]
    /\ AgentHeader(sent[1]) = Str("openclaw-agent")
    /\ AgentHeader(sent[2]) = Str("cynaps3-agent")

\* C17: all attempts of one call() carry the same headers: one
\* X-Request-ID, the same credentials and the same X-Agent-Id, also when
\* the environment has changed between the attempts.
C17_HeadersBuiltOncePerCall ==
    tool = "direct" =>
        \A i \in 1..Len(sent) :
            /\ sent[i].headers = sent[1].headers
            /\ sent[i].headers = req.headers
            /\ {"X-Request-ID", "apikey", "Authorization", "X-CLI-User-Id"}
                  \subseteq DOMAIN sent[i].headers

C17_Witness ==
    /\ tool = "direct" /\ Len(sent) = 3 /\ cpc = "ok"
    /\ AgentHeader(sent[1]) = Str("openclaw-agent")
    /\ AgentHeader(sent[3]) = Str("openclaw-agent")
    /\ sent[3].headers["X-Request-ID"] = sent[1].headers["X-Request-ID"]
    /\ env.OPENCLAW_AGENT_ID = Undefined
    /\ agentId = Undefined

RECURSIVE SplitAt(_, _, _, _)
\* the pieces of str between the characters of delimiters
SplitAt(str, delimiters, piece, done) ==
    IF str = <<>> THEN Append(done, piece)
    ELSE IF Head(str) \in delimiters
    THEN SplitAt(Tail(str), delimiters, <<>>, Append(done, piece))
    ELSE SplitAt(Tail(str), delimiters, Append(piece, Head(str)), done)

\* the character a percent-encoded byte stands for
PercentByte(hi, lo) ==
    CASE <<hi, lo>> = <<"3", "B">> -> ";"
      [] <<hi, lo>> = <<"2", "6">> -> "&"
      [] <<hi, lo>> = <<"3", "D">> -> "="
      [] <<hi, lo>> = <<"2", "5">> -> "%"
      [] <<hi, lo>> = <<"2", "B">> -> "+"
      [] <<hi, lo>> = <<"2", "C">> -> ","
      [] <<hi, lo>> = <<"2", "0">> -> " "
      [] OTHER -> "?"

RECURSIVE PercentDecode(_)
PercentDecode(str) ==
    IF str = <<>> THEN <<>>
    ELSE IF Head(str) = "%" /\ Len(str) >= 3
    THEN <<PercentByte(str[2], str[3])>> \o PercentDecode(SubSeq(str, 4, Len(str)))
    ELSE IF Head(str) = "+" THEN <<" ">> \o PercentDecode(Tail(str))
    ELSE <<Head(str)>> \o PercentDecode(Tail(str))

\* a term cut at its first '='
KeyOf(term) ==
    IF \E i \in 1..Len(term) : term[i] = "="
    THEN SubSeq(term, 1, (CHOOSE i \in 1..Len(term) :
                            term[i] = "=" /\ \A j \in 1..(i - 1) : term[j] # "=") - 1)
    ELSE term

ValueOf(term) == SubSeq(term, Len(KeyOf(term)) + 2, Len(term))

\* what a naive parser makes of a query string: it cuts at every '&' and
\* ';', cuts each term at its first '=', and decodes key and value
NaiveParse(search) ==
    IF search = <<>> THEN <<>>
    ELSE LET terms == SplitAt(search, {"&", ";"}, <<>>, <<>>)
         IN  [i \in 1..Len(terms) |->
                <<PercentDecode(KeyOf(terms[i])), PercentDecode(ValueOf(terms[i]))>>]

\* C18: the query string of query() gives a naive parser exactly the
\* supplied filters: one term per supplied key, with the supplied value,
\* whatever delimiters or nested key=op.value text the value contains.
C18_FilterValuesAreOpaque ==
    verdict # Undefined => NaiveParse(verdict.search) = probe

C18_Witness ==
    /\ probe = << <<<<"i", "d">>,
                    EqOf(<<"a", ";", "i", "d", "=", "e", "q", ".", "a">>)>> >>
    /\ verdict # Undefined
    /\ verdict.search =
          <<"i", "d", "=", "e", "q", ".", "a", "%", "3", "B", "i", "d", "%",
            "3", "D", "e", "q", ".", "a">>

\* the tools whose requests go through query()
QueryTools ==
    CreateTools \cup UpdateTools \cup {"musicmation_delete_project"}

\* the same request again: same URL, method and body
SameRequest(a, b) ==
    /\ a.fn = b.fn /\ a.query = b.query
    /\ a.method = b.method /\ a.body = b.body

\* the last n requests of the invocation are one request sent n times
SentTimes(n) ==
    /\ Len(sent) >= n
    /\ \A i \in (Len(sent) - n + 1)..Len(sent) : SameRequest(sent[i], Last(sent))

\* C19: a handler fails on a 5xx response or a transport fault only after
\* the request that met it has been sent 1 + budget times, whether it went
\* out through call(), rpc() or query().
C19_QueryRetriesLikeCall ==
    /\ (hpc = "threw" /\ tool \in RpcTools \cup {"direct"} /\ Len(log) >= 1
         /\ (Is5xx(Last(log)) \/ IsFault(Last(log))))
            => SentTimes(1 + maxRetries)
    /\ (hpc = "threw" /\ tool \in QueryTools /\ Len(qlog) >= 1
         /\ (Is5xx(Last(qlog)) \/ IsFault(Last(qlog))))
            => SentTimes(1 + MAX_RETRIES)

\* the identifier of the row the create step of musicmation_generate got
CreatedTrackId == Get(First(qlog[1].body.value), "id")

\* C20: once the create step of musicmation_generate has given an
\* identifier, the handler never throws: it returns a result holding that
\* identifier as track_id, with enqueued = false whenever the enqueue call
\* failed (a 402 included).
C20_PartialSuccessKeepsTrackId ==
    (tool = "musicmation_generate" /\ step = "enqueue") =>
        /\ hpc \in {"await", "returned"}
        /\ hpc = "returned" =>
              /\ Get(hresult.value.details, "track_id") = CreatedTrackId
              /\ Truthy(CreatedTrackId)
              /\ cpc = "fail" =>
                    Get(hresult.value.details, "enqueued") = Bool(FALSE)

C20_Witness ==
    /\ tool = "musicmation_generate" /\ step = "enqueue" /\ hpc = "returned"
    /\ Len(sent) = 2 /\ Len(log) = 1 /\ Last(log).status = 402
    /\ callError.status = 402
    /\ Get(hresult.value.details, "track_id") = Str("p1")
    /\ Get(hresult.value.details, "enqueued") = Bool(FALSE)

\* the rows the backend returned to the first query of the invocation
ReturnedTracks ==
    IF qlog # <<>> /\ Is2xx(qlog[1]) /\ qlog[1].body.parses
       /\ qlog[1].body.value.t = "array"
    THEN qlog[1].body.value.v ELSE <<>>

\* the positions of track_ids naming a track the backend returned
KnownAt == {i \in DOMAIN params.track_ids.v :
               \E k \in DOMAIN ReturnedTracks :
                   Get(ReturnedTracks[k], "id") = params.track_ids.v[i]}

\* the positions of track_ids naming a track that is COMPLETE in the backend
CompleteAt == {i \in DOMAIN params.track_ids.v :
                  \E k \in DOMAIN ReturnedTracks :
                      /\ Get(ReturnedTracks[k], "id") = params.track_ids.v[i]
                      /\ Get(ReturnedTracks[k], "status") = Str("COMPLETE")}

PollSummarised ==
    /\ tool = "musicmation_bulk_poll_status" /\ hpc = "returned"
    /\ params.track_ids.v # <<>>

\* C21: a bulk status check over N >= 1 identifiers of which M are COMPLETE
\* in the backend returns a summary with total = N, completed = M and
\* all_done = (M = N); an identifier the backend returned no row for is
\* reported with status not_found, and is not among the completed ones.
C21_SummaryCountsCompleted ==
    PollSummarised =>
        LET details == hresult.value.details
            summary == Get(details, "summary")
            N == Len(params.track_ids.v)
            M == Cardinality(CompleteAt)
        IN  /\ Get(summary, "total") = Num(N)
            /\ Get(summary, "completed") = Num(M)
            /\ Get(summary, "all_done") = Bool(M = N)
            /\ Len(Get(details, "tracks").v) = N
            /\ \A i \in 1..N :
                  /\ i \notin KnownAt <=>
                        Get(Get(details, "tracks").v[i], "status") = Str("not_found")
                  /\ i \notin KnownAt =>
                        Get(Get(details, "tracks").v[i], "status") # Str("complete")

\* two identifiers, one COMPLETE and one the backend does not know
C21_Witness ==
    /\ PollSummarised
    /\ Len(params.track_ids.v) = 2
    /\ Cardinality(CompleteAt) = 1
    /\ Cardinality(KnownAt) = 1
    /\ Get(Get(hresult.value.details, "summary"), "all_done") = Bool(FALSE)

\* every identifier asked for is COMPLETE
C21_WitnessAllDone ==
    /\ PollSummarised
    /\ Len(params.track_ids.v) = 2
    /\ Get(Get(hresult.value.details, "summary"), "all_done") = Bool(TRUE)

Registered == verdict # Undefined

\* the tools of a module, as the sources of the tool files name them
ModuleToolNames(module) ==
    IF module = "musicmation"
    THEN {"musicmation_generate", "musicmation_bulk_generate",
          "musicmation_bulk_poll_status", "musicmation_search_tracks",
          "musicmation_browse_styles", "musicmation_library_stats",
          "musicmation_recommend", "musicmation_get_personas",
          "musicmation_get_top_rated", "musicmation_browse_influence_groups",
          "musicmation_get_influence_group_detail", "musicmation_poll_status",
          "musicmation_generate_lyrics", "musicmation_rate_tracks",
          "musicmation_create_album", "musicmation_set_dramaturgy",
          "musicmation_bulk_rename", "musicmation_list_projects",
          "musicmation_create_project", "musicmation_update_project",
          "musicmation_get_project_context", "musicmation_set_project_context",
          "musicmation_delete_project", "musicmation_create_item",
          "musicmation_update_item"}
    ELSE {}

NoDuplicates(s) == Cardinality(Range(s)) = Len(s)

Supplied(field, variable) ==
    LET own == Get(probe.pluginConfig, field)
    IN  IF own.t = "string" /\ own.v # "" THEN own ELSE probe.env[variable]

ValidConfig ==
    /\ probe.fn = "register"
    /\ Supplied("supabaseUrl", "CYNAPS3_SUPABASE_URL").t = "string"
    /\ Supplied("supabaseUrl", "CYNAPS3_SUPABASE_URL").v
          \in {"https://x.supabase.co", "https://env.supabase.co"}
    /\ Supplied("supabaseAnonKey", "CYNAPS3_ANON_KEY").t = "string"
    /\ Supplied("serviceRoleKey", "CYNAPS3_SERVICE_ROLE_KEY").t = "string"
    /\ Supplied("userId", "CYNAPS3_USER_ID").t = "string"

NothingRegistered ==
    verdict.tools = <<>> /\ verdict.commands = <<>> /\ verdict.services = <<>>

\* C23: registered with a valid config whose enabledModules is the empty
\* list, the plugin loads without error and the registered tools are exactly
\* cynaps3_preflight.
C23_NoModulesOnlyPreflight ==
    (Registered /\ ValidConfig
     /\ Get(probe.pluginConfig, "enabledModules") = Arr(<<>>)) =>
        /\ ~verdict.threw /\ verdict.errors = <<>>
        /\ verdict.tools = <<"cynaps3_preflight">>

\* C24: when the config is invalid (a required field is supplied neither by
\* pluginConfig nor by the environment, or supabaseUrl is not a URL),
\* register() does not throw and leaves the host as it was: no tool, no
\* command and no service is registered, and no request is sent.
C24_InvalidConfigRegistersNothing ==
    (Registered /\ probe.fn = "register" /\ ~ValidConfig) =>
        /\ ~verdict.threw
        /\ NothingRegistered
        /\ sent = <<>> /\ qlog = <<>> /\ log = <<>>

\* a supabaseUrl that is not a URL, everything else supplied
C24_Witness ==
    /\ Registered /\ probe.fn = "register"
    /\ Get(probe.pluginConfig, "supabaseUrl") = Str("not-a-url")
    /\ Get(probe.pluginConfig, "supabaseAnonKey") = Str("anon-key")
    /\ Get(probe.pluginConfig, "userId") = Str("user-1")
    /\ NothingRegistered
    /\ Len(verdict.errors) = 2

DeleteSent == {k \in DOMAIN sent : sent[k].method = "DELETE"}

DeletePending ==
    tool = "musicmation_delete_project" /\ hpc = "await" /\ step = "delete"

\* the first request of the invocation was a read of the project named by
\* params, and it returned a project whose name is confirm_name
ReadConfirms ==
    /\ Len(sent) >= 1 /\ Len(qlog) >= 1
    /\ sent[1].method = "GET"
    /\ sent[1].fn = "skill-api/sunoma_projects"
    /\ sent[1].query.id = "eq." \o params.project_id.v
    /\ Is2xx(qlog[1]) /\ qlog[1].status # 204 /\ ~qlog[1].cl0
    /\ qlog[1].body.parses
    /\ qlog[1].body.value.t = "array"
    /\ Len(qlog[1].body.value.v) >= 1
    /\ Get(qlog[1].body.value.v[1], "name") = params.confirm_name

\* C25: delete_project sends the DELETE only after a read of that project id,
\* in the same invocation, returned a project whose name equals confirm_name
\* exactly; when the project is not found or the name differs no DELETE is
\* sent and the result reports deleted = false.  No other tool of the model
\* sends a DELETE.
C25_DeleteOnlyAfterNameMatch ==
    /\ tool # "musicmation_delete_project" => DeleteSent = {}
    /\ tool = "musicmation_delete_project" =>
          /\ DeletePending =>
                /\ ReadConfirms
                /\ req.method = "DELETE"
                /\ req.query.id = "eq." \o params.project_id.v
          /\ DeleteSent # {} =>
                /\ ReadConfirms
                /\ DeleteSent = {2}
                /\ sent[2].query.id = "eq." \o params.project_id.v
          /\ (hpc = "returned" /\ ~ReadConfirms) =>
                /\ DeleteSent = {}
                /\ Get(hresult.value.details, "deleted") = Bool(FALSE)

\* the name was confirmed and the project deleted
C25_Witness ==
    /\ tool = "musicmation_delete_project" /\ hpc = "returned"
    /\ ReadConfirms
    /\ DeleteSent = {2}
    /\ Get(hresult.value.details, "deleted") = Bool(TRUE)

\* the name differs in case: deletion refused
C25_WitnessRefused ==
    /\ tool = "musicmation_delete_project" /\ hpc = "returned"
    /\ params.confirm_name = Str("alpha")
    /\ Len(sent) = 1 /\ Is2xx(qlog[1]) /\ qlog[1].body.parses
    /\ First(qlog[1].body.value) = Row("p1", "Alpha")
    /\ Get(hresult.value.details, "deleted") = Bool(FALSE)

RECURSIVE Alone(_, _)
\* the locals of a call() that runs with no other call on the client and has
\* received the given responses, in order
Alone(budget, responses) ==
    IF responses = <<>> THEN Started(budget)
    ELSE LET before == Alone(budget, Front(responses))
         IN  Received(IF before.cpc = "sleep" THEN NextIteration(before)
                      ELSE before,
                      Last(responses))

LocalsOf(f) == [k \in DOMAIN Started(0) |-> f[k]]

\* C26: calls sharing one client do not interfere.  Under every interleaving
\* of the calls, the position, attempt count, delays, last error and outcome
\* of each call are those of a call running alone that received the same
\* responses; every request of a call carries the headers built at its
\* start, with a request id of its own; the client's agent identity stays
\* what the constructor stored.
C26_CallsDoNotInterfere ==
    /\ agentId = fromContext(built.config, built.ctx)
    /\ \A i \in DOMAIN calls :
          LET f == calls[i]
              alone == Alone(f.maxRetries, f.log)
          IN  /\ \/ LocalsOf(f) = alone
                 \/ alone.cpc = "sleep" /\ LocalsOf(f) = NextIteration(alone)
              /\ Len(f.sent) = Len(f.log)
              /\ \A k \in DOMAIN f.sent : f.sent[k] = f.req
              /\ f.req.headers["X-Request-ID"] = randomUUID(i, 1)
              /\ \A j \in DOMAIN calls :
                    j # i => calls[j].req.headers["X-Request-ID"]
                             # f.req.headers["X-Request-ID"]

\* two calls suspended together after different numbers of failures
C26_Witness ==
    /\ Len(calls) = 2
    /\ calls[1].cpc = "sleep" /\ calls[2].cpc = "sleep"
    /\ calls[1].attempt = 0 /\ calls[2].attempt = 1
    /\ calls[1].delays = <<1000>> /\ calls[2].delays = <<1000, 2000>>

RECURSIVE Pow2(_)
Pow2(n) == IF n = 0 THEN 1 ELSE 2 * Pow2(n - 1)

\* a failure call() retries while attempts remain: anything but a 2xx whose
\* body parses and a 4xx
Retryable(r) == ~(Is2xx(r) /\ r.body.parses) /\ ~Is4xx(r)

\* C27: after a retryable failure that is not rate-limited the wait after
\* attempt number a (counted from 0) is 1000 * 2^a milliseconds, so 1000 then
\* 2000 with the default budget of 2; there is a wait after every retryable
\* failure but that of the final attempt, and after nothing else.
C27_BackoffDoubles ==
    InCall =>
        /\ \A k \in DOMAIN delays : delays[k] = 1000 * Pow2(k - 1)
        /\ Len(delays) = Cardinality({k \in DOMAIN log :
                                         Retryable(log[k]) /\ k - 1 < maxRetries})
        /\ (cpc = "fail" /\ Len(log) = maxRetries + 1) =>
                Len(delays) = maxRetries
        /\ (maxRetries = MAX_RETRIES /\ Len(log) = 3) => delays = <<1000, 2000>>

\* the default budget used up by a 503 carrying a Retry-After header, a
\* rejected fetch and a 500: waits of 1000 and 2000, none after the last
C27_Witness ==
    /\ tool \in WriteTools /\ cpc = "fail" /\ maxRetries = MAX_RETRIES
    /\ Len(log) = 3
    /\ log[1] = Http(503, Parsed(BackendErrorBody), Header(<<"3">>))
    /\ IsFault(log[2])
    /\ Is5xx(log[3])
    /\ delays = <<1000, 2000>>

Suspended == cpc \in {"fetch", "sleep"}

Settled == cpc \in {"ok", "fail"}

\* C28: for every retry budget R >= 0 and every sequence of responses and
\* transport faults, call() never sends more than 1 + R requests, a call that
\* fails fails with a typed error, and every call that is under way
\* eventually settles: it returns or it fails.
C28_CallSettlesWithinBudget ==
    /\ [](InCall =>
            /\ Len(log) <= 1 + maxRetries
            /\ Len(sent) <= 1 + maxRetries
            /\ cpc = "fail" => callError.name = "CynapsApiError"
            /\ cpc = "ok" => callError = NoError)
    /\ (Suspended ~> Settled)

\* a budget of 1 used up by a 2xx whose body does not parse and a transport
\* fault: settled after 2 requests
C28_Witness ==
    /\ tool = "direct" /\ cpc = "fail" /\ maxRetries = 1
    /\ Len(sent) = 2
    /\ log[1] = Http(200, Unparsed, NoHeader)
    /\ IsFault(log[2])
    /\ callError.name = "CynapsApiError"

\* C29: within one call(), once an attempt has received a 2xx response no
\* further request is sent: a 2xx is the last response of the call and the
\* call is neither waiting nor about to fetch again, also when the body of
\* the 2xx is empty or cannot be parsed.
C29_NoRetryAfterSuccess ==
    InCall =>
        /\ \A k \in 1..(Len(log) - 1) : ~Is2xx(log[k])
        /\ (log # <<>> /\ Is2xx(Last(log))) => cpc \notin {"fetch", "sleep"}

\* the rows a PATCH was answered with
PatchedRows ==
    IF qlog # <<>> /\ Is2xx(qlog[1]) /\ qlog[1].status # 204 /\ ~qlog[1].cl0
       /\ qlog[1].body.parses /\ qlog[1].body.value.t = "array"
    THEN qlog[1].body.value.v ELSE <<>>

\* the PATCH did not fail: a 2xx without a body, or with one that parses
PatchAccepted ==
    /\ qlog # <<>> /\ Is2xx(qlog[1])
    /\ qlog[1].status = 204 \/ qlog[1].cl0 \/ qlog[1].body.parses

HasUpdatableField ==
    \E k \in DOMAIN params :
        /\ params[k] # Undefined
        /\ k \in Range(IF tool = "musicmation_update_project"
                       THEN ProjectUpdatable ELSE ItemUpdatable)

SaysUpdated ==
    /\ hpc = "returned"
    /\ Get(hresult.value.details, "message")
          \in {Str("Project updated successfully."),
               Str("Item updated successfully.")}

UpdateOver == tool \in UpdateTools /\ hpc \in {"returned", "threw"}

\* C30 as stated: update_item and update_project answer with the success
\* message only if the PATCH returned at least one row, and send no request
\* when no updatable field is supplied.
C30_SuccessNeedsUpdatedRow ==
    UpdateOver =>
        /\ SaysUpdated => PatchedRows # <<>>
        /\ ~HasUpdatableField => sent = <<>>

\* C30, amended: update_item and update_project answer with the success
\* message whenever the PATCH does not fail, with the first returned row or,
\* when no row came back, with an object holding only the id of the params;
\* a failing PATCH ends in a typed error; when no updatable field is
\* supplied no request is sent and the answer is 'No fields to update.'.
C30_SuccessUnlessPatchFails ==
    UpdateOver =>
        IF ~HasUpdatableField
        THEN /\ sent = <<>>
             /\ hresult = NoFieldsResult
        ELSE /\ Len(sent) = 1 /\ sent[1].method = "PATCH"
             /\ sent[1].query.id = "eq." \o params[IdParam(tool)].v
             /\ SaysUpdated <=> PatchAccepted
             /\ hpc = "threw" <=> ~PatchAccepted
             /\ hpc = "threw" => hresult.error.name = "CynapsApiError"
             /\ SaysUpdated =>
                   Get(hresult.value.details,
                       IF tool = "musicmation_update_project"
                       THEN "project" ELSE "item")
                   = IF PatchedRows # <<>> THEN PatchedRows[1]
                     ELSE Obj([id |-> params[IdParam(tool)]])

\* a PATCH answered with an empty list of rows, reported as a success
C30_Witness ==
    /\ tool = "musicmation_update_project" /\ SaysUpdated
    /\ qlog = <<Http(200, Parsed(Arr(<<>>)), NoHeader)>>
    /\ Get(hresult.value.details, "project") = Obj([id |-> Str("p1")])

====
